---- MODULE Spec2Model ----
(***************************************************************************)
(* The RAG chat server of tax-rag-nextjs: the POST /api/chat handler       *)
(* (src/app/api/chat/route.ts: the multi-model revision, lines 117-225,    *)
(* and the revision keyed by embedding type, lines 1-115), the RAG core    *)
(* they call (src/app/page.tsx lines 69-373, the multi-model revision of   *)
(* lib/rag.ts) and the single-store revision of the core (src/lib/rag.ts). *)
(*                                                                         *)
(* Node runs one handler at a time; a handler gives up control only at an  *)
(* await.  Every action below is the code of one request between two       *)
(* awaits, so the interleavings of the actions are the interleavings the   *)
(* event loop can produce.                                                 *)
(*                                                                         *)
(* Text is a sequence of tokens (strings); includes / replace / trim work  *)
(* on contiguous runs of tokens.                                           *)
(***************************************************************************)
EXTENDS Integers, Sequences, FiniteSets, TLC

\* ------------------------------------------------------------------ bounds
\* Requests the server receives in one run.
NReq == 2
\* Chunks the text splitter makes of data/tax.txt.
NumChunks == 4

\* similaritySearch(query, 3)
TopK == 3

Req == 1..NReq

\* ------------------------------------------------------------------ state
VARIABLES
  memoryStores,          \* provider -> the cached MemoryVectorStore or NoStore
  isMemoryInitialized,   \* provider -> BOOLEAN
  pineconeClient,        \* the singleton client exists
  pc,                    \* request -> the await it is suspended at
  body,                  \* request -> its body
  handler,               \* request -> the revision of the entry point serving it
  vectorStore,           \* request -> askQuestion's local vectorStore
  embeddings,            \* request -> the vectors its build has received
  retrievedDocs,         \* request -> askQuestion's local retrievedDocs
  prompt,                \* request -> the prompt handed to llm.invoke
  resp,                  \* request -> the response sent
  err,                   \* request -> the value its catch block caught
  calls,                 \* request -> the outbound steps it has started, in order
  fn,                    \* the function a run of one function applies, "" before
  arg,                   \* its argument
  out                    \* its result

\* ------------------------------------------------------------------ text
\* White space as trim knows it: the WhiteSpace and LineTerminator code points
\* of ECMAScript.  A character other than " ", "\n" and "\t" is written by
\* its code point.
WhiteSpace ==
  {" ", "\n", "\t", "U+000B", "U+000C", "U+000D", "U+00A0", "U+1680",
   "U+2000", "U+2001", "U+2002", "U+2003", "U+2004", "U+2005", "U+2006",
   "U+2007", "U+2008", "U+2009", "U+200A", "U+2028", "U+2029", "U+202F",
   "U+205F", "U+3000", "U+FEFF"}

RECURSIVE TrimStart(_)
TrimStart(s) ==
  IF s # <<>> /\ Head(s) \in WhiteSpace THEN TrimStart(Tail(s)) ELSE s

RECURSIVE TrimEnd(_)
TrimEnd(s) ==
  IF s # <<>> /\ s[Len(s)] \in WhiteSpace THEN TrimEnd(SubSeq(s, 1, Len(s) - 1)) ELSE s

\* String.prototype.trim
Trim(s) == TrimEnd(TrimStart(s))

\* The positions at which sub occurs in s.
Occurrences(s, sub) ==
  {i \in 1..(Len(s) - Len(sub) + 1) : SubSeq(s, i, i + Len(sub) - 1) = sub}

\* String.prototype.includes
Includes(s, sub) == Len(sub) = 0 \/ Occurrences(s, sub) # {}

\* How often x occurs in seq.
Count(seq, x) == Cardinality({i \in 1..Len(seq) : seq[i] = x})

MinOf(S) == CHOOSE x \in S : \A y \in S : x <= y

\* String.prototype.replace with a string pattern: the first occurrence only
Replace(s, sub, rep) ==
  IF Len(sub) = 0 THEN rep \o s
  ELSE IF Occurrences(s, sub) = {} THEN s
  ELSE LET i == MinOf(Occurrences(s, sub))
       IN  SubSeq(s, 1, i - 1) \o rep \o SubSeq(s, i + Len(sub), Len(s))

\* ------------------------------------------------------------------ JSON values
Undefined == [t |-> "undefined", v |-> <<>>]
JsNull == [t |-> "null", v |-> <<>>]
JsNumber(n) == [t |-> "number", v |-> <<n>>]
JsString(s) == [t |-> "string", v |-> s]

\* ToBoolean, as the ! operator applies it
Truthy(x) ==
  CASE x.t \in {"undefined", "null"} -> FALSE
    [] x.t = "number" -> x.v # <<"0">>
    [] x.t = "string" -> x.v # <<>>
    [] OTHER -> TRUE

\* ------------------------------------------------------------------ model types
OPENAI == <<"openai">>
UPSTAGE == <<"upstage">>
OPENAI_PINECONE == <<"openai", "-", "pinecone">>
UPSTAGE_PINECONE == <<"upstage", "-", "pinecone">>

VALID_MODEL_TYPES == <<OPENAI, UPSTAGE, OPENAI_PINECONE, UPSTAGE_PINECONE>>

EmbeddingProvider == {OPENAI, UPSTAGE}

\* Array.prototype.includes on VALID_MODEL_TYPES: only a string equal to an entry
IsValidModelType(x) ==
  x.t = "string" /\ \E i \in 1..Len(VALID_MODEL_TYPES) : VALID_MODEL_TYPES[i] = x.v

\* The embedding provider not taken from the model type.
parseModelTypeOpenAIOnly(modelType) ==
  IF Includes(modelType, <<"pinecone">>)
  THEN [embedding |-> OPENAI, vectorStore |-> "pinecone"]
  ELSE [embedding |-> OPENAI, vectorStore |-> "memory"]

parseModelType(modelType) ==
  IF Includes(modelType, <<"pinecone">>)
  THEN [embedding |-> Replace(modelType, <<"-", "pinecone">>, <<>>),
        vectorStore |-> "pinecone"]
  ELSE [embedding |-> modelType, vectorStore |-> "memory"]

\* The chat model of OpenAI for every provider.
getLLMOpenAIOnly(provider) ==
  [model |-> "gpt-4o-mini", baseURL |-> "default", temperature |-> 0]

\* getLLM: the chat model of a provider
getLLM(provider) ==
  IF provider = OPENAI
  THEN [model |-> "gpt-4o-mini", baseURL |-> "default", temperature |-> 0]
  ELSE [model |-> "solar-pro2", baseURL |-> "https://api.upstage.ai/v1",
        temperature |-> 0]

\* getEmbeddings: the embedding model of a provider
getEmbeddings(provider) ==
  IF provider = OPENAI
  THEN [class |-> "OpenAIEmbeddings", model |-> "text-embedding-3-large"]
  ELSE [class |-> "UpstageEmbeddings", model |-> "embedding-query"]

\* ------------------------------------------------------------------ corpus
ChunkName == <<"c1", "c2", "c3", "c4", "c5", "c6">>

\* textSplitter.createDocuments([taxContent]): the chunks of data/tax.txt in
\* reading order
createDocuments == [i \in 1..NumChunks |-> <<ChunkName[i]>>]

\* ------------------------------------------------------------------ text splitter
\* new RecursiveCharacterTextSplitter({chunkSize, chunkOverlap}): the
\* separators are "\n\n", "\n", " " and "", the separator is kept at the
\* head of the piece it begins, and pieces are joined without anything in
\* between.  A text is a sequence of characters, one token each.
Separators == << <<"\n", "\n">>, <<"\n">>, <<" ">>, <<>> >>

\* chunkSize: 1500, chunkOverlap: 200
chunkSize == 1500
chunkOverlap == 200

\* The places from lo to hi, in ascending order, at which the separator
\* begins in the text and a piece can begin: not the first place of the
\* text (computed by halves).
RECURSIVE CutsIn(_, _, _, _)
CutsIn(text, separator, lo, hi) ==
  IF lo > hi THEN <<>>
  ELSE IF lo = hi
  THEN IF lo > 1 /\ lo + Len(separator) - 1 <= Len(text)
          /\ SubSeq(text, lo, lo + Len(separator) - 1) = separator
       THEN <<lo>>
       ELSE <<>>
  ELSE LET h == (lo + hi) \div 2
       IN  CutsIn(text, separator, lo, h) \o CutsIn(text, separator, h + 1, hi)

\* splitOnSeparator: text.split(new RegExp(`(?=${separator})`)), or
\* text.split("") for the empty separator, without the empty pieces
splitOnSeparator(text, separator) ==
  IF separator = <<>> THEN [i \in 1..Len(text) |-> <<text[i]>>]
  ELSE IF text = <<>> THEN <<>>
  ELSE LET cuts == CutsIn(text, separator, 1, Len(text))
           n == Len(cuts)
       IN  [j \in 1..(n + 1) |->
              SubSeq(text, IF j = 1 THEN 1 ELSE cuts[j - 1],
                           IF j = n + 1 THEN Len(text) ELSE cuts[j] - 1)]

\* docs.join(separator) for the empty separator: the pieces one after the
\* other (computed by halves)
RECURSIVE Concat(_)
Concat(pieces) ==
  IF pieces = <<>> THEN <<>>
  ELSE IF Len(pieces) = 1 THEN pieces[1]
  ELSE LET h == Len(pieces) \div 2
       IN  Concat(SubSeq(pieces, 1, h)) \o Concat(SubSeq(pieces, h + 1, Len(pieces)))

\* mergeSplits: its locals docs, currentDoc and total
MergeStart == [docs |-> <<>>, currentDoc |-> <<>>, total |-> 0]

\* joinDocs and docs.push: the pieces of currentDoc, joined and trimmed,
\* become a chunk unless nothing is left of them
FlushDoc(m) ==
  LET doc == Trim(Concat(m.currentDoc))
  IN  IF doc = <<>> THEN m ELSE [m EXCEPT !.docs = Append(@, doc)]

\* total + _len + currentDoc.length * separator.length > chunkSize
Overflows(m, d, size) == m.total + Len(d) > size

\* The condition of the while loop that drops pieces from the head of
\* currentDoc.
KeepPopping(m, d, size, overlap) ==
  m.total > overlap \/ (Overflows(m, d, size) /\ m.total > 0)

\* total -= currentDoc[0].length; currentDoc.shift()
PopOne(m) ==
  [m EXCEPT !.total = @ - Len(Head(m.currentDoc)), !.currentDoc = Tail(@)]

\* Rounds of a loop that the model computes in one recursion.
Stride == 100

\* At most n rounds of the while loop.
RECURSIVE PopUpTo(_, _, _, _, _)
PopUpTo(m, d, size, overlap, n) ==
  IF n > 0 /\ KeepPopping(m, d, size, overlap)
  THEN PopUpTo(PopOne(m), d, size, overlap, n - 1)
  ELSE m

\* The while loop, a stride of rounds at a time.
RECURSIVE PopWhile(_, _, _, _)
PopWhile(m, d, size, overlap) ==
  IF KeepPopping(m, d, size, overlap)
  THEN PopWhile(PopUpTo(m, d, size, overlap, Stride), d, size, overlap)
  ELSE m

\* currentDoc.push(d); total += _len
PushSplit(m, d) ==
  [m EXCEPT !.currentDoc = Append(@, d), !.total = @ + Len(d)]

\* One round of the for loop of mergeSplits.
MergeStep(m, d, size, overlap) ==
  IF Overflows(m, d, size) /\ m.currentDoc # <<>>
  THEN PushSplit(PopWhile(FlushDoc(m), d, size, overlap), d)
  ELSE PushSplit(m, d)

\* The for loop of mergeSplits over the pieces lo to hi, in order.  The range
\* is halved: first the rounds of its first half, then those of the second;
\* the test of the total, never negative, has the first half computed before
\* the second begins.
RECURSIVE MergeLoop(_, _, _, _, _, _)
MergeLoop(m, splits, lo, hi, size, overlap) ==
  IF lo > hi THEN m
  ELSE IF lo = hi THEN MergeStep(m, splits[lo], size, overlap)
  ELSE LET h == (lo + hi) \div 2
           first == MergeLoop(m, splits, lo, h, size, overlap)
       IN  IF first.total >= 0
           THEN MergeLoop(first, splits, h + 1, hi, size, overlap)
           ELSE first

\* mergeSplits(splits, ""): the chunks made of consecutive pieces
mergeSplits(splits, size, overlap) ==
  FlushDoc(MergeLoop(MergeStart, splits, 1, Len(splits), size, overlap)).docs

\* The separator _splitText picks: the first that is "" or occurs in the text.
SeparatorIndex(text, separators) ==
  MinOf({i \in 1..Len(separators) :
           separators[i] = <<>> \/ Includes(text, separators[i])})

\* _splitText: its locals goodSplits and finalChunks
SplitStart == [goodSplits |-> <<>>, finalChunks |-> <<>>]

\* if (goodSplits.length) { finalChunks.push(...mergeSplits(goodSplits));
\* goodSplits = [] }
MergeGood(s, size, overlap) ==
  IF s.goodSplits # <<>>
  THEN [goodSplits |-> <<>>,
        finalChunks |-> s.finalChunks \o mergeSplits(s.goodSplits, size, overlap)]
  ELSE s

\* _splitText(text, separators): pieces shorter than the chunk size are
\* gathered and merged; a piece that is not is split with the separators
\* that follow, or kept whole when there are none.
RECURSIVE splitTextWith(_, _, _, _)

\* One round of the for loop of _splitText.
SplitStep(s, piece, newSeparators, size, overlap) ==
  IF Len(piece) < size
  THEN [s EXCEPT !.goodSplits = Append(@, piece)]
  ELSE [MergeGood(s, size, overlap) EXCEPT
          !.finalChunks = @ \o (IF newSeparators = <<>>
                                THEN <<piece>>
                                ELSE splitTextWith(piece, newSeparators, size, overlap))]

\* The for loop of _splitText over the pieces lo to hi, in order, halved as
\* the loop of mergeSplits is.
RECURSIVE SplitLoop(_, _, _, _, _, _, _)
SplitLoop(s, splits, lo, hi, newSeparators, size, overlap) ==
  IF lo > hi THEN s
  ELSE IF lo = hi THEN SplitStep(s, splits[lo], newSeparators, size, overlap)
  ELSE LET h == (lo + hi) \div 2
           first == SplitLoop(s, splits, lo, h, newSeparators, size, overlap)
       IN  IF Len(first.goodSplits) >= 0
           THEN SplitLoop(first, splits, h + 1, hi, newSeparators, size, overlap)
           ELSE first

splitTextWith(text, separators, size, overlap) ==
  LET k == SeparatorIndex(text, separators)
      newSeparators == IF separators[k] = <<>> THEN <<>>
                       ELSE SubSeq(separators, k + 1, Len(separators))
      splits == splitOnSeparator(text, separators[k])
  IN  MergeGood(SplitLoop(SplitStart, splits, 1, Len(splits), newSeparators,
                          size, overlap),
                size, overlap).finalChunks

\* splitText(text); createDocuments([text]) makes one document of each chunk
splitText(text, size, overlap) == splitTextWith(text, Separators, size, overlap)

\* ------------------------------------------------------------------ embedding
\* The embedding services are deterministic per (provider, text); the two
\* providers place the same text differently.
TextCode(text) ==
  IF text # <<>> /\ \E i \in 1..Len(ChunkName) : ChunkName[i] = Head(text)
  THEN CHOOSE i \in 1..Len(ChunkName) : ChunkName[i] = Head(text)
  ELSE 2

\* The vectors the services return have one length (here 5): points of a
\* circle.
UnitVector ==
  << <<5, 0>>, <<4, 3>>, <<3, 4>>, <<0, 5>>, <<-3, 4>>, <<-4, 3>>, <<-5, 0>>,
     <<-4, -3>>, <<-3, -4>>, <<0, -5>>, <<3, -4>>, <<4, -3>> >>

embedQuery(provider, text) ==
  IF provider = OPENAI
  THEN UnitVector[TextCode(text)]
  ELSE UnitVector[((TextCode(text) * 5) % Len(UnitVector)) + 1]

\* Two texts per request.
BatchSizeTwo(provider, n) == 2

\* Texts an embedding request carries: UpstageEmbeddings.embedDocuments sends
\* one text per request, OpenAIEmbeddings sends the whole list in one batch.
BatchSize(provider, n) == IF provider = UPSTAGE THEN 1 ELSE n

MinNat(a, b) == IF a < b THEN a ELSE b

\* ------------------------------------------------------------------ vector stores
NoStore == [kind |-> "none", by |-> 0, embedder |-> <<>>, memoryVectors |-> <<>>]

\* No store comes back.
MemoryVectorStoreNone(r, provider, docs, vectors) == NoStore

\* A store that misses the last document.
MemoryVectorStoreShort(r, provider, docs, vectors) ==
  [kind |-> "memory", by |-> r, embedder |-> provider,
   memoryVectors |-> [i \in 1..(Len(docs) - 1) |->
                        [content |-> docs[i], embedding |-> vectors[i]]]]

\* The documents added to the store cached so far instead of a new store.
MemoryVectorStoreAppending(r, provider, docs, vectors) ==
  [kind |-> "memory", by |-> r, embedder |-> provider,
   memoryVectors |-> memoryStores[provider].memoryVectors
                     \o [i \in 1..Len(docs) |->
                           [content |-> docs[i], embedding |-> vectors[i]]]]

\* MemoryVectorStore.fromDocuments(docs, embeddings): the store holds one
\* (content, embedding) entry per document
MemoryVectorStore(r, provider, docs, vectors) ==
  [kind |-> "memory", by |-> r, embedder |-> provider,
   memoryVectors |-> [i \in 1..Len(docs) |->
                        [content |-> docs[i], embedding |-> vectors[i]]]]

\* PineconeStore.fromExistingIndex(embeddings, {pineconeIndex}): a handle on
\* the external index of the provider
PineconeStore(provider) ==
  [kind |-> "pinecone", by |-> 0, embedder |-> provider, memoryVectors |-> <<>>]

\* The external index, filled beforehand by the indexing script with the
\* corpus embedded by the provider's embedder.
PineconeVectors(provider) ==
  [i \in 1..NumChunks |->
     [content |-> createDocuments[i],
      embedding |-> embedQuery(provider, createDocuments[i])]]

\* The cosine similarity of two vectors of the services' length, times that
\* length squared: their dot product.
Similarity(a, b) == a[1] * b[1] + a[2] * b[2]

\* The k entries most similar to the query vector, most similar first, ties
\* in insertion order.
TopKOf(entries, qv, k) ==
  LET n == Len(entries)
      score(i) == Similarity(entries[i].embedding, qv)
      before(j, i) == score(j) > score(i) \/ (score(j) = score(i) /\ j < i)
      rank(i) == Cardinality({j \in 1..n : before(j, i)}) + 1
  IN  [p \in 1..MinNat(k, n) |->
         entries[CHOOSE i \in 1..n : rank(i) = p].content]

\* vectorStore.similaritySearch(query, k): the query is embedded by the
\* store's own embedder
similaritySearch(store, query, k) ==
  TopKOf(IF store.kind = "pinecone" THEN PineconeVectors(store.embedder)
         ELSE store.memoryVectors,
         embedQuery(store.embedder, query), k)

\* ------------------------------------------------------------------ responses
\* The error texts of the responses; each is named here by an ASCII key.
\* "질문을 입력해주세요."
MSG_QUERY == "query-required"
\* `지원하지 않는 모델 타입입니다. (${VALID_MODEL_TYPES.join(", ")})`
MSG_MODEL_TYPE == "unsupported-model-type"
\* "지원하지 않는 임베딩 타입입니다. (openai 또는 upstage)"
MSG_EMBEDDING_TYPE == "unsupported-embedding-type"
\* "OpenAI API 키가 설정되지 않았습니다."
MSG_OPENAI_KEY == "openai-key-not-set"
\* "Upstage API 키가 설정되지 않았습니다."
MSG_UPSTAGE_KEY == "upstage-key-not-set"
\* "Pinecone API 키 또는 인덱스 설정을 확인해주세요."
MSG_PINECONE == "check-pinecone-key-or-index"
\* "답변 생성 중 오류가 발생했습니다."
MSG_GENERIC == "answer-generation-failed"

NoResponse == [status |-> 0, error |-> "", answer |-> <<>>, sources |-> <<>>]
ErrorJson(status, message) ==
  [status |-> status, error |-> message, answer |-> <<>>, sources |-> <<>>]
AnswerJson(answer, sources) ==
  [status |-> 200, error |-> "", answer |-> answer, sources |-> sources]

\* ------------------------------------------------------------------ thrown values
NoError == [isError |-> FALSE, message |-> <<>>, status |-> "", step |-> ""]
Thrown(isError, message, status, step) ==
  [isError |-> isError, message |-> message, status |-> status, step |-> step]

\* The checks in another order: Upstage before OpenAI.
ErrorResponseUpstageFirst(error) ==
  IF error.isError
     /\ (Includes(error.message, <<"Upstage">>) \/ Includes(error.message, <<"UPSTAGE">>))
  THEN ErrorJson(500, MSG_UPSTAGE_KEY)
  ELSE IF error.isError
          /\ (Includes(error.message, <<"API key">>)
              \/ Includes(error.message, <<"OpenAI">>))
  THEN ErrorJson(500, MSG_OPENAI_KEY)
  ELSE IF error.isError
          /\ (Includes(error.message, <<"Pinecone">>)
              \/ Includes(error.message, <<"PINECONE">>))
  THEN ErrorJson(500, MSG_PINECONE)
  ELSE ErrorJson(500, MSG_GENERIC)

\* The catch block of POST: the 500 response chosen for a thrown value
ErrorResponse(error) ==
  IF error.isError
     /\ (Includes(error.message, <<"API key">>) \/ Includes(error.message, <<"OpenAI">>))
  THEN ErrorJson(500, MSG_OPENAI_KEY)
  ELSE IF error.isError
          /\ (Includes(error.message, <<"Upstage">>)
              \/ Includes(error.message, <<"UPSTAGE">>))
  THEN ErrorJson(500, MSG_UPSTAGE_KEY)
  ELSE IF error.isError
          /\ (Includes(error.message, <<"Pinecone">>)
              \/ Includes(error.message, <<"PINECONE">>))
  THEN ErrorJson(500, MSG_PINECONE)
  ELSE ErrorJson(500, MSG_GENERIC)

\* The catch block of POST in the revision keyed by embedding type: two
\* classes, their texts with the hint at .env.local
\*   "OpenAI API 키가 설정되지 않았습니다. .env.local 파일을 확인해주세요."
\*   "Upstage API 키가 설정되지 않았습니다. .env.local 파일을 확인해주세요."
ErrorResponseEmbeddingType(error) ==
  IF error.isError
     /\ (Includes(error.message, <<"API key">>) \/ Includes(error.message, <<"OpenAI">>))
  THEN ErrorJson(500, "openai-key-not-set-see-env-local")
  ELSE IF error.isError
          /\ (Includes(error.message, <<"Upstage">>)
              \/ Includes(error.message, <<"UPSTAGE">>))
  THEN ErrorJson(500, "upstage-key-not-set-see-env-local")
  ELSE ErrorJson(500, MSG_GENERIC)

\* ------------------------------------------------------------------ inputs
\* A request body as request.json() meets it: text that is no JSON
\* ("unparseable", raw being what the parser quotes in its message), the JSON
\* value null, another JSON value that is no object ("primitive": a number, a
\* string, an array), or an object with its fields (Undefined when absent).
Body(shape, query, modelType, raw) ==
  [shape |-> shape, query |-> query, modelType |-> modelType,
   embeddingType |-> Undefined, raw |-> raw]

NoBody == Body("none", Undefined, Undefined, <<>>)

QueryValues ==
  {Undefined, JsNull, JsNumber("0"), JsNumber("7"), [t |-> "object", v |-> <<>>], JsString(<<>>),
   JsString(<<" ">>), JsString(<<"U+000D">>), JsString(<<"U+3000", "U+00A0">>),
   JsString(<<"q">>), JsString(<<" ", "q">>), JsString(<<"U+3000", "q", "U+000D">>)}

ModelTypeValues ==
  {Undefined, JsNull, JsNumber("7"), JsString(<<"bogus">>), JsString(<<"OpenAI">>),
   JsString(OPENAI), JsString(UPSTAGE), JsString(OPENAI_PINECONE),
   JsString(UPSTAGE_PINECONE)}

\* Texts an upstream service or a parser may put into an error message.
Texts ==
  {<<"other">>, <<"API key">>, <<"OpenAI">>, <<"Upstage">>, <<"UPSTAGE">>,
   <<"Pinecone">>, <<"PINECONE">>, <<"upstage">>}

\* HTTP statuses of a failed upstream call.
FailStatus == {"401", "500"}

\* Everything a single request can be and meet.
HttpInputs ==
  [bodies |-> {Body("unparseable", Undefined, Undefined, t) : t \in Texts}
              \cup {Body("null", Undefined, Undefined, <<>>),
                    Body("primitive", Undefined, Undefined, <<>>)}
              \cup {Body("object", q, m, <<>>) : q \in QueryValues, m \in ModelTypeValues}
              \cup {[Body("object", q, m, <<>>) EXCEPT !.embeddingType = e] :
                      q \in {JsString(<<"q">>), JsString(<<"U+3000">>)},
                      m \in {Undefined, JsString(UPSTAGE)},
                      e \in {JsNull, JsString(<<"bogus">>), JsString(OPENAI),
                             JsString(UPSTAGE), JsString(UPSTAGE_PINECONE)}},
   handlers |-> {"modelType", "embeddingType"},
   texts |-> Texts,
   statuses |-> FailStatus,
   paths |-> {<<"/app">>} \cup {<<"/srv/">> \o t : t \in Texts}]

\* Concurrent asks: well-formed requests for each model type, one rejected
\* request, one failure text per call.
AskInputs ==
  [bodies |-> {Body("object", JsString(<<"q">>), m, <<>>) :
                 m \in {JsString(OPENAI), JsString(UPSTAGE), JsString(OPENAI_PINECONE),
                        JsString(UPSTAGE_PINECONE)}}
              \cup {Body("object", JsString(<<" ">>), Undefined, <<>>)},
   handlers |-> {"modelType"},
   texts |-> {<<"other">>},
   statuses |-> {"401"},
   paths |-> {<<"/app">>}]

\* ------------------------------------------------------------------ failures
\* JSON.parse: SyntaxError, the message quotes the text
SyntaxError(raw) == Thrown(TRUE, <<"Unexpected token ">> \o raw, "", "json")

\* const { query, modelType } = null
DestructureError == Thrown(TRUE, <<"Cannot destructure property 'query'">>, "", "json")

\* fs.readFileSync of a missing data/tax.txt: the message names the path,
\* path.join(process.cwd(), "data", "tax.txt")
FileError(cwd) ==
  Thrown(TRUE, <<"ENOENT: no such file or directory, open '">> \o cwd
               \o <<"/data/tax.txt'">>, "", "build")

\* The error without the body of the response.
UpstageApiErrorNoBody(status, text, step) ==
  Thrown(TRUE, <<"Upstage", " API error: ", status>>, status, step)

\* UpstageEmbeddings.embedQuery, !response.ok:
\* new Error(`Upstage API 오류: ${response.status} - ${error}`)
UpstageApiError(status, text, step) ==
  Thrown(TRUE, <<"Upstage", " API error: ", status, " - ">> \o text, status, step)

\* An error of the OpenAI client (embeddings and chat): status and the text of
\* the response
OpenAIApiError(status, text, step) ==
  Thrown(TRUE, <<status, " ">> \o text, status, step)

\* The ways an embedding request of the provider fails.  UpstageEmbeddings:
\* fetch rejects; the response is not ok; response.json() meets a body that
\* is no JSON (the message quotes the text); data.data is undefined.
EmbedFailures(provider, step, in) ==
  IF provider = UPSTAGE
  THEN {UpstageApiError(st, t, step) : st \in in.statuses, t \in in.texts}
       \cup {Thrown(TRUE, <<"fetch failed">>, "", step)}
       \cup {Thrown(TRUE, <<"Unexpected token ">> \o t \o <<" is not valid JSON">>,
                    "", step) : t \in in.texts}
       \cup {Thrown(TRUE, <<"Cannot read properties of undefined (reading '0')">>,
                    "", step)}
  ELSE {OpenAIApiError(st, t, step) : st \in in.statuses, t \in in.texts}

\* The ways llm.invoke fails: an Error of the client, or a thrown value that
\* is no Error.
InvokeFailures(in) ==
  {OpenAIApiError(st, t, "generate") : st \in in.statuses, t \in in.texts}
  \cup {Thrown(FALSE, t, "", "generate") : t \in in.texts}

\* The ways the Pinecone client and its query fail.
PineconeFailures(step, in) == {Thrown(TRUE, t, "", step) : t \in in.texts}

\* ------------------------------------------------------------------ state tuples
vars ==
  <<memoryStores, isMemoryInitialized, pineconeClient, pc, body, handler,
    vectorStore, embeddings, retrievedDocs, prompt, resp, err, calls, fn, arg, out>>

\* The state of the server.
server ==
  <<memoryStores, isMemoryInitialized, pineconeClient, pc, body, handler,
    vectorStore, embeddings, retrievedDocs, prompt, resp, err, calls>>

shared == <<memoryStores, isMemoryInitialized, pineconeClient>>

\* The server after start: nothing cached, no request yet.
Fresh ==
  /\ memoryStores = [p \in EmbeddingProvider |-> NoStore]
  /\ isMemoryInitialized = [p \in EmbeddingProvider |-> FALSE]
  /\ pineconeClient = FALSE
  /\ pc = [r \in Req |-> "idle"]
  /\ body = [r \in Req |-> NoBody]
  /\ handler = [r \in Req |-> ""]
  /\ vectorStore = [r \in Req |-> NoStore]
  /\ embeddings = [r \in Req |-> <<>>]
  /\ retrievedDocs = [r \in Req |-> <<>>]
  /\ prompt = [r \in Req |-> <<>>]
  /\ resp = [r \in Req |-> NoResponse]
  /\ err = [r \in Req |-> NoError]
  /\ calls = [r \in Req |-> <<>>]

Init == Fresh /\ fn = "" /\ arg = <<>> /\ out = <<>>

\* ------------------------------------------------------------------ POST /api/chat
\* Another default.
DefaultModelTypeUpstage(x) == IF x = Undefined THEN JsString(UPSTAGE) ELSE x

\* const { query, modelType = "openai" } = body: the default applies to an
\* absent (undefined) field only
DefaultModelType(x) == IF x = Undefined THEN JsString(OPENAI) ELSE x

\* The check without the trim.
QueryRejectedNoTrim(query) == ~Truthy(query) \/ query.t # "string"

\* !query || typeof query !== "string" || query.trim() === ""
QueryRejected(query) ==
  ~Truthy(query) \/ query.t # "string" \/ Trim(query.v) = <<>>

\* The model type and the provider a validated request runs with: the
\* revision keyed by embedding type reads embeddingType, the single-store
\* core knows OpenAI only.
ModelTypeOf(r) ==
  CASE handler[r] = "embeddingType" -> DefaultModelType(body[r].embeddingType).v
    [] handler[r] \in {"askQuestion", "initializeVectorStore"} -> OPENAI
    [] OTHER -> DefaultModelType(body[r].modelType).v
ProviderOf(r) == parseModelType(ModelTypeOf(r)).embedding

\* return NextResponse.json(...)
Reply(r, response) ==
  /\ resp' = [resp EXCEPT ![r] = response]
  /\ pc' = [pc EXCEPT ![r] = "done"]

\* catch (error) { ... } of the handler that serves r; a call from elsewhere
\* has no catch block: it is rejected with the error and answers nothing
Catch(r, error) ==
  /\ Reply(r, CASE handler'[r] = "modelType" -> ErrorResponse(error)
                [] handler'[r] = "embeddingType" -> ErrorResponseEmbeddingType(error)
                [] OTHER -> NoResponse)
  /\ err' = [err EXCEPT ![r] = error]

Started(r, step) == calls' = [calls EXCEPT ![r] = Append(@, step)]

\* No check: every ask takes what is cached.
AlreadyInitializedAlways(provider) == TRUE

\* The check with the store test negated.
AlreadyInitializedNegated(provider) ==
  isMemoryInitialized[provider] /\ memoryStores[provider] = NoStore

\* if (isMemoryInitialized[provider] && memoryStores[provider])
AlreadyInitialized(provider) ==
  isMemoryInitialized[provider] /\ memoryStores[provider] # NoStore

\* initializeMemoryStore from its entry to its return of the cached store, or
\* to its first await (createDocuments); readFileSync runs in between.
initializeMemoryStore(r, provider, in) ==
  IF AlreadyInitialized(provider)
  THEN /\ vectorStore' = [vectorStore EXCEPT ![r] = memoryStores[provider]]
       /\ pc' = [pc EXCEPT ![r] = "resolved"]
       /\ UNCHANGED <<shared, embeddings, retrievedDocs, prompt, resp, err, calls>>
  ELSE /\ Started(r, "build")
       /\ \/ /\ pc' = [pc EXCEPT ![r] = "split"]
             /\ UNCHANGED <<resp, err>>
          \/ \E cwd \in in.paths : Catch(r, FileError(cwd))
       /\ UNCHANGED <<shared, vectorStore, embeddings, retrievedDocs, prompt>>

\* One initialized flag for every key.
isVectorStoreInitializedOfAny(provider) ==
  \E p \in EmbeddingProvider : isMemoryInitialized[p]

\* isVectorStoreInitialized(provider) of the library revision the first
\* handler imports, which the sources do not hold: the "initialized" flag
\* the pipeline keeps for the key, set when the key is Ready
isVectorStoreInitialized(provider) == isMemoryInitialized[provider]

\* initializeVectorStore(embeddingType) of the same library revision, up to
\* its first suspension: the lazy build of the index of the key, taken to
\* run as the build of the in-memory store of the provider does.
initializeVectorStoreOfType(r, embeddingType, in) ==
  initializeMemoryStore(r, embeddingType, in)

\* await ensureInitialized(embeddingType) of the revision keyed by embedding
\* type, up to its suspension.  It returns nothing: the store is read by
\* askQuestion(query, embeddingType), called after the await has resumed.
\* The library revision it calls keeps a store and a flag per embedding
\* type; its build and its ask are those of the in-memory store of the
\* provider.
ensureInitialized(r, embeddingType, in) ==
  IF isVectorStoreInitialized(embeddingType)
  THEN /\ pc' = [pc EXCEPT ![r] = "resolved"]
       /\ UNCHANGED vectorStore
       /\ UNCHANGED <<shared, embeddings, retrievedDocs, prompt, resp, err, calls>>
  ELSE initializeVectorStoreOfType(r, embeddingType, in)

\* getPineconeStore from its entry to its await of fromExistingIndex; the
\* client is made on first use and its constructor throws on a bad configuration.
getPineconeStore(r, provider, in) ==
  /\ Started(r, "connect")
  /\ \/ /\ pineconeClient' = TRUE
        /\ pc' = [pc EXCEPT ![r] = "connect"]
        /\ UNCHANGED <<resp, err>>
     \/ /\ ~pineconeClient
        /\ \E e \in PineconeFailures("connect", in) : Catch(r, e)
        /\ UNCHANGED pineconeClient
  /\ UNCHANGED <<memoryStores, isMemoryInitialized, vectorStore, embeddings,
                 retrievedDocs, prompt>>

\* Every model type served by the in-memory store.
getVectorStoreMemoryOnly(r, modelType, in) ==
  initializeMemoryStore(r, parseModelType(modelType).embedding, in)

\* getVectorStore(modelType)
getVectorStore(r, modelType, in) ==
  IF parseModelType(modelType).vectorStore = "pinecone"
  THEN getPineconeStore(r, parseModelType(modelType).embedding, in)
  ELSE initializeMemoryStore(r, parseModelType(modelType).embedding, in)

\* A request arrives and its handler, POST of one of the two revisions, runs
\* to its first suspension inside the pipeline, or to its response.  Both
\* read the body and check the query alike; the revision keyed by embedding
\* type then checks embeddingType (default "openai") and ignores modelType.
\* Requests are numbered as they arrive.
POST(r, in) ==
  /\ pc[r] = "idle"
  /\ IF r = 1 THEN TRUE ELSE pc[r - 1] # "idle"
  /\ \E h \in in.handlers : \E b \in in.bodies :
       /\ handler' = [handler EXCEPT ![r] = h]
       /\ body' = [body EXCEPT ![r] = b]
       /\ IF b.shape = "unparseable"
          THEN /\ Catch(r, SyntaxError(b.raw))
               /\ UNCHANGED <<shared, vectorStore, embeddings, retrievedDocs, prompt, calls>>
          ELSE IF b.shape = "null"
          THEN /\ Catch(r, DestructureError)
               /\ UNCHANGED <<shared, vectorStore, embeddings, retrievedDocs, prompt, calls>>
          ELSE IF QueryRejected(b.query)
          THEN /\ Reply(r, ErrorJson(400, MSG_QUERY))
               /\ UNCHANGED <<shared, vectorStore, embeddings, retrievedDocs, prompt, err,
                              calls>>
          ELSE IF h = "embeddingType"
          THEN IF DefaultModelType(b.embeddingType)
                    \notin {JsString(OPENAI), JsString(UPSTAGE)}
               THEN /\ Reply(r, ErrorJson(400, MSG_EMBEDDING_TYPE))
                    /\ UNCHANGED <<shared, vectorStore, embeddings, retrievedDocs, prompt,
                                   err, calls>>
               ELSE ensureInitialized(r, DefaultModelType(b.embeddingType).v, in)
          ELSE IF ~IsValidModelType(DefaultModelType(b.modelType))
          THEN /\ Reply(r, ErrorJson(400, MSG_MODEL_TYPE))
               /\ UNCHANGED <<shared, vectorStore, embeddings, retrievedDocs, prompt, err,
                              calls>>
          ELSE getVectorStore(r, DefaultModelType(b.modelType).v, in)

\* ------------------------------------------------------------------ building the index
\* createDocuments has resolved: getEmbeddings, then
\* MemoryVectorStore.fromDocuments sends the first embedding request.
SplitDone(r) ==
  /\ pc[r] = "split"
  /\ pc' = [pc EXCEPT ![r] = "embed"]
  /\ embeddings' = [embeddings EXCEPT ![r] = <<>>]
  /\ Started(r, "embed")
  /\ UNCHANGED <<shared, body, handler, vectorStore, retrievedDocs, prompt, resp, err>>

\* The vectors one embedding response brings for the documents from `got` on.
EmbeddedBatch(provider, docs, got) ==
  [i \in 1..MinNat(BatchSize(provider, Len(docs)), Len(docs) - got) |->
     embedQuery(provider, docs[got + i])]

\* An embedding request of a build returns.  With every document embedded
\* fromDocuments returns the store, which is assigned and flagged:
\*   memoryStores[provider] = await MemoryVectorStore.fromDocuments(...)
\*   isMemoryInitialized[provider] = true
\* initializeMemoryStore of the multi-model revision then returns
\* memoryStores[provider] to its ask in the same continuation; the builds of
\* the other revisions return nothing, and their callers read the store
\* once their own await has resumed (Search).  A build called on its own
\* ends here.  Otherwise embedDocuments sends its next request.  A failure
\* is thrown up to the caller.
EmbedResponse(r, in) ==
  /\ pc[r] = "embed"
  /\ UNCHANGED handler
  /\ LET provider == ProviderOf(r)
         docs == createDocuments
         got == embeddings[r] \o EmbeddedBatch(provider, docs, Len(embeddings[r]))
         store == MemoryVectorStore(r, provider, docs, got)
     IN  \/ /\ Len(got) = Len(docs)
            /\ memoryStores' = [memoryStores EXCEPT ![provider] = store]
            /\ isMemoryInitialized' = [isMemoryInitialized EXCEPT ![provider] = TRUE]
            /\ vectorStore' = IF handler[r] = "modelType"
                              THEN [vectorStore EXCEPT ![r] = store]
                              ELSE vectorStore
            /\ embeddings' = [embeddings EXCEPT ![r] = <<>>]
            /\ pc' = [pc EXCEPT ![r] = IF handler[r] = "initializeVectorStore"
                                       THEN "done" ELSE "resolved"]
            /\ UNCHANGED <<pineconeClient, resp, err, calls>>
         \/ /\ Len(got) < Len(docs)
            /\ embeddings' = [embeddings EXCEPT ![r] = got]
            /\ Started(r, "embed")
            /\ UNCHANGED <<shared, pc, vectorStore, resp, err>>
         \/ /\ \E e \in EmbedFailures(provider, "embed", in) : Catch(r, e)
            /\ embeddings' = [embeddings EXCEPT ![r] = <<>>]
            /\ UNCHANGED <<shared, vectorStore, calls>>
  /\ UNCHANGED <<body, retrievedDocs, prompt>>

\* fromExistingIndex has resolved with the store.
ConnectDone(r) ==
  /\ pc[r] = "connect"
  /\ vectorStore' = [vectorStore EXCEPT ![r] = PineconeStore(ProviderOf(r))]
  /\ pc' = [pc EXCEPT ![r] = "resolved"]
  /\ UNCHANGED <<shared, body, handler, embeddings, retrievedDocs, prompt, resp, err, calls>>

\* ------------------------------------------------------------------ askQuestion
\* retrievedDocs.map((doc) => doc.pageContent).join("\n\n")
RECURSIVE Join(_, _)
Join(texts, sep) ==
  IF texts = <<>> THEN <<>>
  ELSE IF Len(texts) = 1 THEN texts[1]
  ELSE texts[1] \o sep \o Join(Tail(texts), sep)

\* The prompt with the question trimmed.
PromptOfTrimmed(context, query) ==
  <<"[Identity]", "[Context]">> \o context \o <<"[Question]">> \o Trim(query)

\* The prompt template: identity, context block, question block.
PromptOf(context, query) ==
  <<"[Identity]", "[Context]">> \o context \o <<"[Question]">> \o query

\* Characters of a chunk shown as a source.
PreviewLen == 100

\* The preview without the cut.
PreviewWhole(text) == text \o <<"...">>

\* doc.pageContent.substring(0, 100) + "..."
Preview(text) == SubSeq(text, 1, MinNat(PreviewLen, Len(text))) \o <<"...">>

\* retrievedDocs.map((doc) => doc.pageContent.substring(0, 100) + "...")
SourcesOf(docs) == [i \in 1..Len(docs) |-> Preview(docs[i])]

\* The text the chat model returns for a prompt.
Generate(llm, p) == <<"answer of ", llm.model>>

\* The search not awaited: generation is invoked as the search starts.
SearchNotAwaited(r) ==
  /\ pc[r] = "resolved"
  /\ pc' = [pc EXCEPT ![r] = "generate"]
  /\ calls' = [calls EXCEPT ![r] = @ \o <<"search", "generate">>]
  /\ prompt' = [prompt EXCEPT ![r] = PromptOf(<<>>, body[r].query.v)]
  /\ UNCHANGED <<shared, body, handler, vectorStore, embeddings, retrievedDocs, resp, err>>

\* The await in front of the search has resumed: similaritySearch is called
\* and embeds the query.  The multi-model revision searches the store its
\* await of getVectorStore returned.  The other revisions read the store
\* only now, after await initializeVectorStore() (single store) or after
\* await ensureInitialized(embeddingType) (the ask then takes the store
\* cached for the type): they search the store assigned last.
Search(r) ==
  /\ pc[r] = "resolved"
  /\ pc' = [pc EXCEPT ![r] = "search"]
  /\ vectorStore' = IF handler[r] = "modelType" THEN vectorStore
                    ELSE [vectorStore EXCEPT ![r] = memoryStores[ProviderOf(r)]]
  /\ Started(r, "search")
  /\ UNCHANGED <<shared, body, handler, embeddings, retrievedDocs, prompt, resp, err>>

\* similaritySearch returns: context, prompt, getLLM, llm.invoke; or it fails.
SearchResponse(r, in) ==
  /\ pc[r] = "search"
  /\ UNCHANGED handler
  /\ \/ LET docs == similaritySearch(vectorStore[r], body[r].query.v, TopK)
        IN  /\ retrievedDocs' = [retrievedDocs EXCEPT ![r] = docs]
            /\ prompt' = [prompt EXCEPT ![r] =
                            PromptOf(Join(docs, <<"\n\n">>), body[r].query.v)]
            /\ pc' = [pc EXCEPT ![r] = "generate"]
            /\ Started(r, "generate")
            /\ UNCHANGED <<resp, err>>
     \/ /\ \E e \in EmbedFailures(vectorStore[r].embedder, "search", in) : Catch(r, e)
        /\ UNCHANGED <<retrievedDocs, prompt, calls>>
     \/ /\ vectorStore[r].kind = "pinecone"
        /\ \E e \in PineconeFailures("search", in) : Catch(r, e)
        /\ UNCHANGED <<retrievedDocs, prompt, calls>>
  /\ UNCHANGED <<shared, body, vectorStore, embeddings>>

\* A failed llm.invoke is tried a second time.
GenerateResponseRetry(r, in) ==
  /\ pc[r] = "generate"
  /\ UNCHANGED handler
  /\ \/ /\ Reply(r, AnswerJson(Generate(getLLM(ProviderOf(r)), prompt[r]),
                               SourcesOf(retrievedDocs[r])))
        /\ UNCHANGED <<err, calls>>
     \/ /\ Count(calls[r], "generate") < 2
        /\ Started(r, "generate")
        /\ UNCHANGED <<pc, resp, err>>
     \/ /\ Count(calls[r], "generate") >= 2
        /\ \E e \in InvokeFailures(in) : Catch(r, e)
        /\ UNCHANGED calls
  /\ UNCHANGED <<shared, body, vectorStore, embeddings, retrievedDocs, prompt>>

\* llm.invoke returns: the answer and the sources are sent; or it fails.
GenerateResponse(r, in) ==
  /\ pc[r] = "generate"
  /\ UNCHANGED handler
  /\ \/ /\ Reply(r, AnswerJson(Generate(getLLM(ProviderOf(r)), prompt[r]),
                               SourcesOf(retrievedDocs[r])))
        /\ UNCHANGED err
     \/ \E e \in InvokeFailures(in) : Catch(r, e)
  /\ UNCHANGED <<shared, body, vectorStore, embeddings, retrievedDocs, prompt, calls>>

\* ------------------------------------------------------------------ specifications
Step(r, in) ==
  /\ \/ POST(r, in)
     \/ SplitDone(r)
     \/ EmbedResponse(r, in)
     \/ ConnectDone(r)
     \/ Search(r)
     \/ SearchResponse(r, in)
     \/ GenerateResponse(r, in)
  /\ UNCHANGED <<fn, arg, out>>

\* Concurrent asks.
Next == \E r \in Req : Step(r, AskInputs)

Spec == Init /\ [][Next]_vars

\* One request at a time through the request boundary, with every shape of
\* body and every failure text.
NextHttp == Step(1, HttpInputs)

SpecHttp == Init /\ [][NextHttp]_vars

\* ------------------------------------------------------------------ the single-store core
\* src/lib/rag.ts keeps one module-level vectorStore and isInitialized and
\* knows the OpenAI models only: they are the entries of "openai" in
\* memoryStores and isMemoryInitialized, and its initializeVectorStore() is
\* initializeMemoryStore for "openai" line by line.  A call of the exported
\* askQuestion(query) has no catch block around it; what it returns is kept
\* in resp as a 200 answer.
\* askQuestion(query) up to its first suspension:
\*   if (!vectorStore) { await initializeVectorStore(); }
\*   const retrievedDocs = await vectorStore!.similaritySearch(query, 3);
\* With a store present nothing is awaited before the search: the store is
\* read and searched in the step of the call.
askQuestion(r, in) ==
  /\ pc[r] = "idle"
  /\ IF r = 1 THEN TRUE ELSE pc[r - 1] # "idle"
  /\ handler' = [handler EXCEPT ![r] = "askQuestion"]
  /\ \E b \in in.bodies : body' = [body EXCEPT ![r] = b]
  /\ IF memoryStores[OPENAI] # NoStore
     THEN /\ vectorStore' = [vectorStore EXCEPT ![r] = memoryStores[OPENAI]]
          /\ pc' = [pc EXCEPT ![r] = "search"]
          /\ Started(r, "search")
          /\ UNCHANGED <<shared, embeddings, retrievedDocs, prompt, resp, err>>
     ELSE initializeMemoryStore(r, OPENAI, in)

\* The exported initializeVectorStore() called on its own, up to its return
\* (already initialized) or its first await; nothing is searched after it.
\*   if (isInitialized && vectorStore) { return; }
initializeVectorStore(r, in) ==
  /\ pc[r] = "idle"
  /\ IF r = 1 THEN TRUE ELSE pc[r - 1] # "idle"
  /\ handler' = [handler EXCEPT ![r] = "initializeVectorStore"]
  /\ IF AlreadyInitialized(OPENAI)
     THEN /\ pc' = [pc EXCEPT ![r] = "done"]
          /\ UNCHANGED <<resp, err, calls>>
     ELSE /\ Started(r, "build")
          /\ \/ /\ pc' = [pc EXCEPT ![r] = "split"]
                /\ UNCHANGED <<resp, err>>
             \/ \E cwd \in in.paths : Catch(r, FileError(cwd))
  /\ UNCHANGED <<shared, body, vectorStore, embeddings, retrievedDocs, prompt>>

\* Concurrent calls of askQuestion and of initializeVectorStore.
NextRag ==
  \E r \in Req :
    /\ \/ askQuestion(r, AskInputs)
       \/ initializeVectorStore(r, AskInputs)
       \/ SplitDone(r)
       \/ EmbedResponse(r, AskInputs)
       \/ Search(r)
       \/ SearchResponse(r, AskInputs)
       \/ GenerateResponse(r, AskInputs)
    /\ UNCHANGED <<fn, arg, out>>

SpecRag == Init /\ [][NextRag]_vars

\* ------------------------------------------------------------------ GET /api/chat
\* "소득세 RAG API가 정상 작동 중입니다."
MSG_HEALTHY == "api-is-running"

\* Each provider reported with the flag of the other.
GetInitializedSwapped ==
  /\ fn' = "GET initialized"
  /\ out' = [status |-> "ok", message |-> MSG_HEALTHY,
             initialized |-> [p \in EmbeddingProvider |->
                                isVectorStoreInitialized(IF p = OPENAI THEN UPSTAGE
                                                         ELSE OPENAI)]]
  /\ UNCHANGED <<server, arg>>

\* GET of the revision that reports the flags.  The response is kept in out.
GetInitialized ==
  /\ fn' = "GET initialized"
  /\ out' = [status |-> "ok", message |-> MSG_HEALTHY,
             initialized |-> [p \in EmbeddingProvider |-> isVectorStoreInitialized(p)]]
  /\ UNCHANGED <<server, arg>>

\* GET of the revision that reports the model types.
GetSupportedModels ==
  /\ fn' = "GET supportedModels"
  /\ out' = [status |-> "ok", message |-> MSG_HEALTHY,
             supportedModels |-> VALID_MODEL_TYPES]
  /\ UNCHANGED <<server, arg>>

\* Concurrent asks of the revision keyed by embedding type.
MemoryInputs ==
  [bodies |-> {[Body("object", JsString(<<"q">>), Undefined, <<>>)
                  EXCEPT !.embeddingType = JsString(m)] : m \in EmbeddingProvider},
   handlers |-> {"embeddingType"},
   texts |-> {<<"other">>},
   statuses |-> {"401"},
   paths |-> {<<"/app">>}]

\* Asks of either embedding type and status requests, in any order.
NextGet ==
  \/ \E r \in Req : Step(r, MemoryInputs)
  \/ GetInitialized
  \/ GetSupportedModels

SpecGet == Init /\ [][NextGet]_vars

\* ------------------------------------------------------------------ runs of one function
\* A run of one function takes its argument in the initial state and applies
\* the function once; the server stays as started.
Alphabet == <<"a", "b", "c", "d", "e", "f", "g">>

\* A text of len characters, one token each, that begins at a place of the
\* alphabet and runs through it.
TextOf(start, len) ==
  [i \in 1..len |-> Alphabet[((start + i) % Len(Alphabet)) + 1]]

SeqsUpTo(S, n) == UNION {[1..m -> S] : m \in 0..n}

\* askQuestion's sources of what a search returned: up to TopK documents,
\* their texts below, at and above the length of a preview.
InitSources ==
  /\ Fresh /\ fn = "" /\ out = <<>>
  /\ arg \in SeqsUpTo({TextOf(0, 0), TextOf(1, 1), TextOf(2, PreviewLen - 1),
                       TextOf(3, PreviewLen), TextOf(4, PreviewLen + 1),
                       TextOf(5, PreviewLen + 30)}, TopK)

Sources ==
  /\ fn = ""
  /\ fn' = "sources"
  /\ out' = SourcesOf(arg)
  /\ UNCHANGED <<server, arg>>

SpecSources == InitSources /\ [][Sources]_vars

\* Entries of the index a search run builds, and the largest k it asks for.
MaxIndex == 3
MaxK == 4

\* similaritySearch(query, k) on an in-memory index built of any documents of
\* the corpus by a provider's embedder.
InitSearch ==
  /\ Fresh /\ fn = "" /\ out = <<>>
  /\ arg \in [provider : EmbeddingProvider,
              docs : SeqsUpTo({createDocuments[i] : i \in 1..NumChunks}, MaxIndex),
              query : {createDocuments[i] : i \in 1..NumChunks} \cup {<<"q">>},
              k : 0..MaxK]

SimilaritySearch ==
  /\ fn = ""
  /\ fn' = "search"
  /\ out' = similaritySearch(
               MemoryVectorStore(0, arg.provider, arg.docs,
                                 [i \in 1..Len(arg.docs) |->
                                    embedQuery(arg.provider, arg.docs[i])]),
               arg.query, arg.k)
  /\ UNCHANGED <<server, arg>>

SpecSearch == InitSearch /\ [][SimilaritySearch]_vars

\* Characters of a text to split, and the longest text and the largest chunk
\* size of a splitting run.
SplitAlphabet == {"a", "b", " ", "\n", "U+000D"}
MaxText == 5
MaxChunk == 3

\* splitText on any short text with any chunk size and a smaller overlap
\* (the constructor rejects chunkOverlap >= chunkSize).
InitSplit ==
  /\ Fresh /\ fn = "" /\ out = <<>>
  /\ arg \in {a \in [text : SeqsUpTo(SplitAlphabet, MaxText),
                      size : 1..MaxChunk,
                      overlap : 0..(MaxChunk - 1)] : a.overlap < a.size}

Split ==
  /\ fn = ""
  /\ fn' = "split"
  /\ out' = splitText(arg.text, arg.size, arg.overlap)
  /\ UNCHANGED <<server, arg>>

SpecSplit == InitSplit /\ [][Split]_vars

\* ------------------------------------------------------------------ splitting a document
\* A document of 10,000 characters, letters in which white space ends every stretch of so many
\* characters: white is the white space, a sequence of characters, and a
\* stretch of 0 means no white space at all.
Document(start, stretch, white) ==
  [i \in 1..10000 |->
     IF stretch > 0 /\ (i - 1) % stretch >= stretch - Len(white)
     THEN white[((i - 1) % stretch) - (stretch - Len(white)) + 1]
     ELSE Alphabet[((start + i) % Len(Alphabet)) + 1]]

\* Documents without white space, and documents of words, lines and
\* paragraphs of one length, the white space included.
Documents ==
  {Document(start, 0, <<>>) : start \in 0..(Len(Alphabet) - 1)}
  \cup {Document(0, stretch, white) :
          stretch \in {10, 80, 200, 650, 1000, 1300, 1499, 1500, 1501, 2000, 3000,
                       10000},
          white \in {<<" ">>, <<"\n">>, <<"\n", "\n">>, <<" ", "\n">>}}

\* createDocuments([taxContent]) of a splitter made with chunkSize 1500 and
\* chunkOverlap 200, on a document of 10,000 characters.
InitChunk ==
  /\ Fresh /\ fn = "" /\ out = <<>>
  /\ arg \in [text : Documents, size : {chunkSize}, overlap : {chunkOverlap}]

Chunk ==
  /\ fn = ""
  /\ fn' = "chunks"
  /\ out' = splitText(arg.text, arg.size, arg.overlap)
  /\ UNCHANGED <<server, arg>>

SpecChunk == InitChunk /\ [][Chunk]_vars

\* ------------------------------------------------------------------ the indexing script
\* scripts: npm run index:pinecone -- --provider <name>.  One run of the
\* script: arg is what the run meets (command line, environment, file,
\* services), fn the await the script is suspended at, out its state and
\* the state of the external indexes.
EnvNames ==
  {"PINECONE_API_KEY", "OPENAI_API_KEY", "UPSTAGE_API_KEY",
   "PINECONE_INDEX_OPENAI", "PINECONE_INDEX_UPSTAGE"}

\* The most words a command line is given.
MaxArgs == 2

Providers == <<"openai", "upstage">>

\* process.env.<PROVIDER>_API_KEY and process.env.PINECONE_INDEX_<PROVIDER>
ApiKeyName(p) == IF p = "openai" THEN "OPENAI_API_KEY" ELSE "UPSTAGE_API_KEY"
IndexName(p) ==
  IF p = "openai" THEN "PINECONE_INDEX_OPENAI" ELSE "PINECONE_INDEX_UPSTAGE"

\* main: the word after the first "--provider", "all" when there is none
ProviderArg(args) ==
  LET at == {i \in 1..Len(args) : args[i] = "--provider"}
  IN  IF at # {} /\ MinOf(at) + 1 <= Len(args)
      THEN args[MinOf(at) + 1]
      ELSE "all"

\* main: the providers indexToPinecone is called for, in order; with "all" a
\* provider whose API key or index name is not set is skipped
ToIndex(provider, env) ==
  IF provider = "all"
  THEN SelectSeq(Providers, LAMBDA p : ApiKeyName(p) \in env /\ IndexName(p) \in env)
  ELSE <<provider>>

\* The script before main runs.
ScriptStart ==
  [exitCode |-> -1, todo |-> <<>>, provider |-> "", started |-> <<>>,
   index |-> [p \in {"openai", "upstage"} |->
               << [content |-> <<"old">>, embedding |-> <<5, 0>>] >>],
   deleteAll |-> <<>>, upsert |-> <<>>]

InitIndex ==
  /\ Fresh /\ fn = "" /\ out = ScriptStart
  /\ arg \in [args : SeqsUpTo({"--provider", "openai", "upstage", "all", "pinecone"},
                              MaxArgs),
              env : SUBSET EnvNames,
              fileExists : BOOLEAN,
              keyCheckedAtConstruction : BOOLEAN,
              deleteFails : BOOLEAN,
              embedFails : BOOLEAN]

\* process.exit(code)
Exit(code) ==
  /\ fn' = "exit"
  /\ out' = [out EXCEPT !.exitCode = code]

\* main up to its try block: the command line is read and PINECONE_API_KEY
\* checked
Main ==
  /\ fn = ""
  /\ IF "PINECONE_API_KEY" \notin arg.env
     THEN Exit(1)
     ELSE /\ fn' = "main"
          /\ out' = [out EXCEPT !.todo = ToIndex(ProviderArg(arg.args), arg.env)]
  /\ UNCHANGED <<server, arg>>

\* The file is not looked for.
SourceMissingNever(a) == FALSE

\* !fs.existsSync(taxFilePath)
SourceMissing(a) == ~a.fileExists

\* getIndexConfig throws, or config.indexName is not set: the provider is
\* unknown, the embeddings class rejects a missing key when it is
\* constructed, or the index name is missing
ConfigMissing(a, p) ==
  \/ p \notin {"openai", "upstage"}
  \/ p = "openai" /\ "OPENAI_API_KEY" \notin a.env /\ a.keyCheckedAtConstruction
  \/ IndexName(p) \notin a.env

\* main: every provider is done
Done ==
  /\ fn = "main"
  /\ out.todo = <<>>
  /\ fn' = "exit"
  /\ out' = [out EXCEPT !.exitCode = 0]
  /\ UNCHANGED <<server, arg>>

\* indexToPinecone(provider) up to its first await: the configuration, the
\* file, and the call of createDocuments; what it throws main catches
IndexToPinecone ==
  /\ fn = "main"
  /\ out.todo # <<>>
  /\ LET p == Head(out.todo)
         begun == [out EXCEPT !.provider = p, !.todo = Tail(@),
                              !.started = Append(@, p)]
     IN  IF ConfigMissing(arg, p) \/ SourceMissing(arg)
         THEN /\ fn' = "exit"
              /\ out' = [begun EXCEPT !.exitCode = 1]
         ELSE /\ fn' = "createDocuments"
              /\ out' = begun
  /\ UNCHANGED <<server, arg>>

\* The chunks are there: the client and the index handle are made and
\* index.deleteAll() is called
CreateDocuments ==
  /\ fn = "createDocuments"
  /\ fn' = "deleteAll"
  /\ UNCHANGED <<server, arg, out>>

\* index.deleteAll() ends: the data is gone, or the call has failed and the
\* failure is swallowed; embedQuery of the first chunk is called
DeleteAll ==
  /\ fn = "deleteAll"
  /\ fn' = "embedQuery"
  /\ out' = IF arg.deleteFails THEN out
            ELSE [out EXCEPT !.index[out.provider] = <<>>,
                             !.deleteAll = Append(@, out.provider)]
  /\ UNCHANGED <<server, arg>>

\* An embedding request of the provider succeeds: the service is up and the
\* key is set.
EmbedSucceeds(a, p) == ~a.embedFails /\ ApiKeyName(p) \in a.env

\* The test call of embedQuery ends; PineconeStore.fromDocuments is called
\* when it has succeeded
EmbedQueryTest ==
  /\ fn = "embedQuery"
  /\ IF EmbedSucceeds(arg, out.provider)
     THEN fn' = "fromDocuments" /\ out' = out
     ELSE Exit(1)
  /\ UNCHANGED <<server, arg>>

\* PineconeStore.fromDocuments ends: the chunks, embedded by the provider's
\* embedder, are in the index, and main goes on; or the call has failed
\* with nothing written
FromDocuments ==
  /\ fn = "fromDocuments"
  /\ \E ok \in BOOLEAN :
       IF ok
       THEN /\ fn' = "main"
            /\ out' = [out EXCEPT
                         !.index[out.provider] = @ \o PineconeVectors(IF out.provider = "openai" THEN OPENAI
                                                                  ELSE UPSTAGE),
                         !.upsert = Append(@, out.provider)]
       ELSE Exit(1)
  /\ UNCHANGED <<server, arg>>

NextIndex ==
  \/ Main \/ Done \/ IndexToPinecone \/ CreateDocuments \/ DeleteAll
  \/ EmbedQueryTest \/ FromDocuments

SpecIndex == InitIndex /\ [][NextIndex]_vars

\* ------------------------------------------------------------------ the chat store
\* useChatStore (zustand), the revision keyed by model type.  A run of the
\* store: out is the state of the store, fn the action called last and arg
\* its argument.
ModelTypes == {VALID_MODEL_TYPES[i] : i \in 1..Len(VALID_MODEL_TYPES)}

\* Messages the store of a run holds at most.
MaxMessages == 3

\* create(...): every list empty, "openai" selected
ChatStoreStart ==
  [messagesByType |-> [t \in ModelTypes |-> <<>>], modelType |-> OPENAI]

\* setModelType: (type) => set({ modelType: type })
setModelType(state, type) == [state EXCEPT !.modelType = type]

\* The message put into the list of "openai" whatever is selected.
addMessageToOpenAI(state, message) ==
  [state EXCEPT !.messagesByType[OPENAI] = Append(@, message)]

\* addMessage: the list of state.modelType is replaced by a copy with the
\* message at its end
addMessage(state, message) ==
  [state EXCEPT !.messagesByType[state.modelType] = Append(@, message)]

\* No type given to clearMessages.
NoType == <<>>

\* clearMessages: the list of the type, or every list when no type is given
clearMessages(state, type) ==
  IF type # NoType
  THEN [state EXCEPT !.messagesByType[type] = <<>>]
  ELSE [state EXCEPT !.messagesByType = [t \in ModelTypes |-> <<>>]]

\* Messages in the store.
StoredMessages(state) ==
  LET n(i) == Len(state.messagesByType[VALID_MODEL_TYPES[i]])
  IN  n(1) + n(2) + n(3) + n(4)

InitStore == Fresh /\ fn = "" /\ arg = <<>> /\ out = ChatStoreStart

SetModelType ==
  \E type \in ModelTypes :
    /\ fn' = "setModelType"
    /\ arg' = type
    /\ out' = setModelType(out, type)
    /\ UNCHANGED server

AddMessage ==
  \E message \in [role : {"user", "assistant"}, content : {<<"q">>}] :
    /\ StoredMessages(out) < MaxMessages
    /\ fn' = "addMessage"
    /\ arg' = message
    /\ out' = addMessage(out, message)
    /\ UNCHANGED server

ClearMessages ==
  \E type \in ModelTypes \cup {NoType} :
    /\ fn' = "clearMessages"
    /\ arg' = type
    /\ out' = clearMessages(out, type)
    /\ UNCHANGED server

NextStore == SetModelType \/ AddMessage \/ ClearMessages

SpecStore == InitStore /\ [][NextStore]_vars

\* ------------------------------------------------------------------ ChatInterface
\* The component in a browser: out holds its state (messages, input), the
\* status of its mutation and the requests under way; fn is the event
\* handled last.  The component is rendered when an event ends, from its
\* own state and from the current result of the mutation.
\* Questions a run submits at most.
MaxQuestions == 3

\* "죄송합니다. 답변 생성 중 오류가 발생했습니다. 다시 시도해주세요."
MSG_SORRY == <<"sorry">>

InitChat ==
  /\ Fresh
  /\ fn = ""
  /\ arg = <<>>
  /\ out = [messages |-> <<>>, input |-> <<>>, status |-> "idle",
            requests |-> <<>>, sent |-> 0]

\* <input disabled={mutation.isPending}>
InputDisabled(c) == c.status = "pending"

\* <button type="submit" disabled={mutation.isPending || !input.trim()}>; a
\* form whose submit button is disabled is not submitted by the Enter key
SubmitDisabled(c) == c.status = "pending" \/ Trim(c.input) = <<>>

\* onChange={(e) => setInput(e.target.value)}
Type ==
  /\ ~InputDisabled(out)
  /\ \E text \in {<<>>, <<" ">>, <<"U+3000">>, <<"q">>, <<"q", " ">>} :
       /\ text # out.input
       /\ out' = [out EXCEPT !.input = text]
  /\ fn' = "onChange"
  /\ UNCHANGED <<server, arg>>

\* handleSubmit: a blank input is ignored; otherwise the user message is
\* added, the input cleared, and mutation.mutate(query) sends the request
\* and turns the mutation pending
handleSubmit(c) ==
  IF Trim(c.input) = <<>> THEN c
  ELSE [c EXCEPT !.messages = Append(@, [role |-> "user", content |-> c.input]),
                 !.input = <<>>,
                 !.status = "pending",
                 !.requests = Append(@, c.sent + 1),
                 !.sent = @ + 1]

\* The form is submitted, by the button or by the Enter key, and rendered
\* again as the event ends.
Submit ==
  /\ ~SubmitDisabled(out)
  /\ out.sent < MaxQuestions
  /\ out' = handleSubmit(out)
  /\ fn' = "onSubmit"
  /\ UNCHANGED <<server, arg>>

\* A failed request adds no message.
SettleSilentOnError ==
  /\ \E i \in 1..Len(out.requests) : \E ok \in BOOLEAN :
       out' = [out EXCEPT
                 !.messages = IF ok THEN Append(@, [role |-> "assistant",
                                                    content |-> <<"answer">>])
                              ELSE @,
                 !.requests = SubSeq(@, 1, i - 1) \o SubSeq(@, i + 1, Len(@)),
                 !.status = IF out.requests[i] # out.sent THEN @
                            ELSE IF ok THEN "success" ELSE "error"]
  /\ fn' = "settled"
  /\ UNCHANGED <<server, arg>>

\* A request ends: onSuccess adds the answer, onError the fixed text, and
\* the mutation is no longer pending.  The mutation result the component
\* reads is that of the last mutate.
Settle ==
  /\ \E i \in 1..Len(out.requests) : \E ok \in BOOLEAN :
       out' = [out EXCEPT
                 !.messages = Append(@, [role |-> "assistant",
                                         content |-> IF ok THEN <<"answer">>
                                                     ELSE MSG_SORRY]),
                 !.requests = SubSeq(@, 1, i - 1) \o SubSeq(@, i + 1, Len(@)),
                 !.status = IF out.requests[i] # out.sent THEN @
                            ELSE IF ok THEN "success" ELSE "error"]
  /\ fn' = "settled"
  /\ UNCHANGED <<server, arg>>

NextChat == Type \/ Submit \/ Settle

SpecChat == InitChat /\ [][NextChat]_vars

\* ------------------------------------------------------------------ claims: vocabulary
\* Request r has passed validation and asks for the in-memory key p.
AsksMemory(r, p) ==
  /\ pc[r] # "idle"
  /\ body[r].shape \in {"primitive", "object"}
  /\ resp[r].status # 400
  /\ ModelTypeOf(r) = p

\* Request r is inside a build of the in-memory index of p.
Building(r, p) == AsksMemory(r, p) /\ pc[r] \in {"split", "embed"}

\* The whole corpus embedded by the embedder of p: what a completely built
\* index of p holds.
FullIndex(p) ==
  [i \in 1..NumChunks |->
     [content |-> <<ChunkName[i]>>, embedding |-> embedQuery(p, <<ChunkName[i]>>)]]

\* A store an ask may search: a complete in-memory index of p, or the handle
\* on the external index of p.
CompleteFor(store, p) ==
  /\ store.embedder = p
  /\ \/ store.kind = "pinecone"
     \/ store.kind = "memory" /\ store.memoryVectors = FullIndex(p)

\* ------------------------------------------------------------------ C1
\* C1: when two asks for the same uninitialized in-memory key are in flight
\* together, one build is performed for the key: no two requests are ever
\* inside a build of the same key at once.
C1_OneBuildPerKey ==
  \A p \in EmbeddingProvider : \A r1, r2 \in Req :
    (Building(r1, p) /\ Building(r2, p)) => r1 = r2

\* ------------------------------------------------------------------ C2
\* C2: in every interleaving an ask searches only a completely built index:
\* once its search has started its store is complete, what it retrieved is
\* the top of the full index, and its answer shows exactly those chunks.
C2_SearchOnCompleteIndex ==
  \A r \in Req :
    Count(calls[r], "search") > 0 =>
      /\ CompleteFor(vectorStore[r], ProviderOf(r))
      /\ Count(calls[r], "generate") > 0 =>
           retrievedDocs[r] =
             TopKOf(FullIndex(ProviderOf(r)),
                    embedQuery(ProviderOf(r), body[r].query.v), TopK)
      /\ resp[r].status = 200 =>
           resp[r].sources =
             [i \in 1..Len(retrievedDocs[r]) |-> retrievedDocs[r][i] \o <<"...">>]

\* Two asks of one in-memory key raced into two builds, and both answered
\* from a complete index.
C2_Witness ==
  \E r1, r2 \in Req : \E p \in EmbeddingProvider :
    /\ r1 # r2
    /\ AsksMemory(r1, p) /\ AsksMemory(r2, p)
    /\ vectorStore[r1].by = r1 /\ vectorStore[r2].by = r2
    /\ resp[r1].status = 200 /\ resp[r2].status = 200

\* ------------------------------------------------------------------ C3
\* C3: once the index of an in-memory key is built and flagged, an ask that
\* starts for that key starts no build: it reads no file and sends no
\* embedding request of a build, the cached stores stay as they are, and the
\* store it goes on to search is the cached one.
C3_ReadyNeverRebuilds ==
  [][\A r \in Req : \A p \in EmbeddingProvider :
       (pc[r] = "idle" /\ AsksMemory(r, p)' /\ isMemoryInitialized[p])
         => /\ calls'[r] = <<>>
            /\ pc'[r] = "resolved"
            /\ vectorStore'[r] = memoryStores[p]
            /\ CompleteFor(vectorStore'[r], p)
            /\ UNCHANGED <<memoryStores, isMemoryInitialized>>]_vars

\* An ask that started on a ready key has answered without any build step.
C3_Witness ==
  \E r \in Req : \E p \in EmbeddingProvider :
    /\ AsksMemory(r, p)
    /\ resp[r].status = 200
    /\ calls[r] = <<"search", "generate">>
    /\ vectorStore[r].by # r

\* ------------------------------------------------------------------ C4
\* What the claims call a bad query and a bad selector, said of the body.
IsBlank(text) == \A i \in 1..Len(text) : text[i] \in WhiteSpace
BadQuery(q) == q = Undefined \/ q.t # "string" \/ IsBlank(q.v)
\* The selector is the field the handler of the request reads: modelType,
\* with four recognised values, or embeddingType, with two.
SelectorOf(r) ==
  IF handler[r] = "embeddingType" THEN body[r].embeddingType ELSE body[r].modelType
BadSelector(r) ==
  /\ SelectorOf(r) # Undefined
  /\ SelectorOf(r) \notin
       (IF handler[r] = "embeddingType" THEN {JsString(OPENAI), JsString(UPSTAGE)}
        ELSE {JsString(OPENAI), JsString(UPSTAGE), JsString(OPENAI_PINECONE),
              JsString(UPSTAGE_PINECONE)})

\* The pipeline was not entered for request r: no step started, nothing
\* resolved, retrieved or generated.
PipelineUntouched(r) ==
  /\ calls[r] = <<>>
  /\ vectorStore[r] = NoStore
  /\ retrievedDocs[r] = <<>>
  /\ prompt[r] = <<>>

\* C4: a request whose body was read and whose query is missing, no string
\* or blank, or whose selector is not a recognised value, is answered 400
\* at once, before the pipeline is entered: no build, no search, no
\* generation, the caches as they were.
C4_BadRequestIs400 ==
  \A r \in Req :
    (/\ body[r].shape \in {"primitive", "object"}
     /\ BadQuery(body[r].query) \/ BadSelector(r))
      => /\ pc[r] = "done"
         /\ resp[r].status = 400
         /\ resp[r].error \in {MSG_QUERY, MSG_MODEL_TYPE, MSG_EMBEDDING_TYPE}
         /\ err[r] = NoError
         /\ PipelineUntouched(r)
         /\ \A p \in EmbeddingProvider :
              memoryStores[p] = NoStore /\ ~isMemoryInitialized[p]
         /\ ~pineconeClient

\* A good query with an unknown model type was rejected.
C4_Witness ==
  \E r \in Req :
    /\ body[r].shape = "object"
    /\ handler[r] = "modelType"
    /\ body[r].query = JsString(<<"q">>)
    /\ body[r].modelType = JsString(<<"bogus">>)
    /\ resp[r] = ErrorJson(400, MSG_MODEL_TYPE)

\* ------------------------------------------------------------------ C5
\* C5: every request with malformed or missing fields is answered 400,
\* never 500: a body that is no JSON object, a body without query, a query
\* that is no string.
C5_MalformedIs400 ==
  \A r \in Req :
    (/\ pc[r] = "done"
     /\ \/ body[r].shape \in {"unparseable", "null", "primitive"}
        \/ body[r].query = Undefined
        \/ body[r].query.t # "string")
      => resp[r].status = 400

\* ------------------------------------------------------------------ C6
\* Whether the text of a thrown Error holds the marker.
Mentions(e, marker) == \E i \in 1..Len(e.message) : e.message[i] = marker

\* The credential message of a provider in the revision serving r.
HintOf(r, provider) ==
  IF handler[r] = "embeddingType"
  THEN (IF provider = OPENAI THEN "openai-key-not-set-see-env-local"
        ELSE "upstage-key-not-set-see-env-local")
  ELSE (IF provider = OPENAI THEN MSG_OPENAI_KEY ELSE MSG_UPSTAGE_KEY)

\* C6 as stated: a thrown value is answered 500 with the message chosen in
\* this order: "API key" or "OpenAI" gives the OpenAI message; else
\* "Upstage" or "UPSTAGE" the Upstage message; else "Pinecone" or "PINECONE"
\* the Pinecone message; anything else, and any value that is no Error, the
\* generic one.
C6_ClassifiedInOrder ==
  \A r \in Req :
    err[r] # NoError =>
      /\ resp[r].status = 500
      /\ resp[r].error =
           IF ~err[r].isError THEN MSG_GENERIC
           ELSE IF Mentions(err[r], "API key") \/ Mentions(err[r], "OpenAI")
                THEN HintOf(r, OPENAI)
           ELSE IF Mentions(err[r], "Upstage") \/ Mentions(err[r], "UPSTAGE")
                THEN HintOf(r, UPSTAGE)
           ELSE IF Mentions(err[r], "Pinecone") \/ Mentions(err[r], "PINECONE")
                THEN MSG_PINECONE
           ELSE MSG_GENERIC

\* C6, amended: the order is OpenAI, Upstage, Pinecone, generic in the
\* multi-model revision; the revision keyed by embedding type has the first
\* two classes only, and a text that names Pinecone alone gets the generic
\* message there.
C6_ClassifiedInOrderOfRevision ==
  \A r \in Req :
    err[r] # NoError =>
      /\ resp[r].status = 500
      /\ resp[r].error =
           IF ~err[r].isError THEN MSG_GENERIC
           ELSE IF Mentions(err[r], "API key") \/ Mentions(err[r], "OpenAI")
                THEN HintOf(r, OPENAI)
           ELSE IF Mentions(err[r], "Upstage") \/ Mentions(err[r], "UPSTAGE")
                THEN HintOf(r, UPSTAGE)
           ELSE IF handler[r] = "modelType"
                   /\ (Mentions(err[r], "Pinecone") \/ Mentions(err[r], "PINECONE"))
                THEN MSG_PINECONE
           ELSE MSG_GENERIC

\* A request of the revision keyed by embedding type failed in a pipeline
\* step with a text that names Pinecone alone and got the generic message.
C6_Witness ==
  \E r \in Req :
    /\ handler[r] = "embeddingType"
    /\ err[r].step \in {"embed", "search", "generate"}
    /\ err[r].isError
    /\ Mentions(err[r], "Pinecone")
    /\ resp[r] = ErrorJson(500, MSG_GENERIC)

\* ------------------------------------------------------------------ C7
\* C7: when the embedding provider of an ask fails with HTTP 401, the
\* answer is the 500 carrying the hint of that provider, whatever the text
\* of the response.
C7_Embed401GetsOwnHint ==
  \A r \in Req :
    (err[r].step \in {"embed", "search"} /\ err[r].status = "401")
      => resp[r] = ErrorJson(500, HintOf(r, ProviderOf(r)))

\* ------------------------------------------------------------------ C8
\* Embedding requests a build of the provider sends when nothing fails.
BuildRequests(provider) == IF provider = UPSTAGE THEN NumChunks ELSE 1

\* C8: within one ask every outbound step is attempted at most once (the
\* file read of a build, each embedding request of a build, the connect,
\* the search, the generation); when a step fails the ask is over with
\* that error answered as a 500, the failed step is the last one it
\* started, and no answer is returned.
C8_NoRetryAbortOnFailure ==
  \A r \in Req :
    /\ Count(calls[r], "build") <= 1
    /\ Count(calls[r], "connect") <= 1
    /\ Count(calls[r], "embed") <= BuildRequests(ProviderOf(r))
    /\ Count(calls[r], "search") <= 1
    /\ Count(calls[r], "generate") <= 1
    /\ err[r] # NoError =>
         /\ pc[r] = "done"
         /\ resp[r].status = 500
         /\ resp[r].answer = <<>> /\ resp[r].sources = <<>>
         /\ IF err[r].step = "json" THEN calls[r] = <<>>
            ELSE calls[r] # <<>> /\ calls[r][Len(calls[r])] = err[r].step

\* An ask failed in its search after a build of its own, and another failed
\* in generation.
C8_Witness ==
  \E r1, r2 \in Req :
    /\ err[r1].step = "search" /\ calls[r1] = <<"build", "embed", "search">>
    /\ err[r2].step = "generate"

\* ------------------------------------------------------------------ C9
StepRank(step) ==
  CASE step \in {"build", "connect"} -> 1
    [] step = "embed" -> 2
    [] step = "search" -> 3
    [] step = "generate" -> 4

\* C9: within one ask the steps come in the order resolve the index,
\* search, prompt, generation, return, whatever other asks do in between:
\* the search starts only with the index resolved, generation is invoked
\* only with the results of the ask's own search in hand and the prompt
\* made of them, and an answer is returned only after generation.
C9_StepsInOrder ==
  \A r \in Req :
    /\ \A i, j \in 1..Len(calls[r]) :
         i < j => StepRank(calls[r][i]) <= StepRank(calls[r][j])
    /\ Count(calls[r], "search") > 0 => vectorStore[r] # NoStore
    /\ Count(calls[r], "generate") > 0 =>
         /\ Count(calls[r], "search") = 1
         /\ retrievedDocs[r] # <<>>
         /\ retrievedDocs[r] = similaritySearch(vectorStore[r], body[r].query.v, TopK)
         /\ prompt[r] = PromptOf(Join(retrievedDocs[r], <<"\n\n">>), body[r].query.v)
    /\ Count(calls[r], "generate") = 0 => retrievedDocs[r] = <<>> /\ prompt[r] = <<>>
    /\ resp[r].status = 200 => Count(calls[r], "generate") = 1

\* A later request has its answer while an earlier one is still searching.
C9_Witness ==
  \E r1, r2 \in Req :
    /\ r1 < r2
    /\ pc[r1] = "search"
    /\ resp[r2].status = 200

\* ------------------------------------------------------------------ C10
\* C10: a request with a valid query and no selector runs the pipeline for
\* "openai": the in-memory backend (a build of the openai index, no
\* Pinecone client, no upstage index), the OpenAI embedder, and the OpenAI
\* chat model.
C10_DefaultIsOpenAI ==
  \A r \in Req :
    (/\ body[r].shape = "object"
     /\ SelectorOf(r) = Undefined
     /\ ~BadQuery(body[r].query))
      => /\ calls[r] # <<>> /\ calls[r][1] = "build"
         /\ ~pineconeClient
         /\ memoryStores[UPSTAGE] = NoStore
         /\ vectorStore[r] # NoStore =>
              /\ vectorStore[r].kind = "memory"
              /\ vectorStore[r].memoryVectors = FullIndex(OPENAI)
              /\ memoryStores[OPENAI] = vectorStore[r]
         /\ resp[r].status = 200 => resp[r].answer = <<"answer of ", "gpt-4o-mini">>

\* A request without selector has been answered.
C10_Witness ==
  \E r \in Req :
    /\ body[r].shape = "object"
    /\ body[r].modelType = Undefined
    /\ resp[r].status = 200

\* ------------------------------------------------------------------ C11
\* C11: the sources of an answer have one entry per retrieved chunk, in
\* the order of the chunks, and entry i is the first 100 characters of
\* chunk i (the whole chunk when it is shorter) followed by "...".
C11_SourcesArePreviews ==
  fn = "sources" =>
    /\ Len(out) = Len(arg)
    /\ \A i \in 1..Len(arg) :
         LET n == IF Len(arg[i]) < 100 THEN Len(arg[i]) ELSE 100
         IN  /\ Len(out[i]) = n + 1
             /\ out[i][n + 1] = "..."
             /\ \A j \in 1..n : out[i][j] = arg[i][j]

\* Three different chunks, one of them longer than a preview, one shorter,
\* were turned into sources.
C11_Witness ==
  /\ fn = "sources"
  /\ Len(arg) = 3
  /\ Len(arg[1]) > 100 /\ Len(arg[2]) < 100 /\ Len(arg[3]) = 100
  /\ Len(out[1]) = 101

\* ------------------------------------------------------------------ C12
\* The texts of up to three chunks, a double newline between two of them.
ContextBlock(d) ==
  CASE Len(d) = 0 -> <<>>
    [] Len(d) = 1 -> d[1]
    [] Len(d) = 2 -> d[1] \o <<"\n\n">> \o d[2]
    [] Len(d) = 3 -> d[1] \o <<"\n\n">> \o d[2] \o <<"\n\n">> \o d[3]

\* C12: the prompt handed to the chat model holds, in its context block,
\* the texts of the retrieved chunks in ranked order with a double newline
\* between them and, in its question block, the question as the request
\* carried it, untrimmed; the sources of the answer are made of the same
\* chunks in the same order.
C12_PromptFromRankedChunks ==
  \A r \in Req :
    Count(calls[r], "generate") > 0 =>
      LET d == retrievedDocs[r]
          q == body[r].query.v
      IN  /\ d = TopKOf(FullIndex(ProviderOf(r)), embedQuery(ProviderOf(r), q), TopK)
          /\ prompt[r] =
               <<"[Identity]", "[Context]">> \o ContextBlock(d) \o <<"[Question]">> \o q
          /\ resp[r].status = 200 =>
               /\ Len(resp[r].sources) = Len(d)
               /\ \A i \in 1..Len(d) : resp[r].sources[i] = d[i] \o <<"...">>

\* A question that begins with a blank was answered from three chunks.
C12_Witness ==
  \E r \in Req :
    /\ body[r].query = JsString(<<" ", "q">>)
    /\ Len(retrievedDocs[r]) = 3
    /\ resp[r].status = 200
    /\ SubSeq(prompt[r], Len(prompt[r]) - 2, Len(prompt[r])) = <<"[Question]", " ", "q">>

\* ------------------------------------------------------------------ C14
\* C14: UpstageEmbeddings.embedDocuments on the n texts of a build sends
\* one text per request, one request at a time in the order of the texts:
\* while the call runs, one request more has been sent than vectors have
\* come back, vector i being the embedding of text i; when it has returned,
\* n requests were sent and the n vectors are the embeddings of the n
\* texts in order.
C14_UpstageOneByOne ==
  \A r \in Req :
    AsksMemory(r, UPSTAGE) =>
      /\ pc[r] = "embed" =>
           /\ Len(embeddings[r]) < NumChunks
           /\ Count(calls[r], "embed") = Len(embeddings[r]) + 1
           /\ \A i \in 1..Len(embeddings[r]) :
                embeddings[r][i] = embedQuery(UPSTAGE, createDocuments[i])
      /\ vectorStore[r].by = r =>
           /\ Count(calls[r], "embed") = NumChunks
           /\ Len(vectorStore[r].memoryVectors) = NumChunks
           /\ \A i \in 1..NumChunks :
                vectorStore[r].memoryVectors[i] =
                  [content |-> createDocuments[i],
                   embedding |-> embedQuery(UPSTAGE, createDocuments[i])]

\* A build with the Upstage embedder is half way: two vectors are back and
\* the third request is out; and another such build has finished.
C14_Witness ==
  \E r1, r2 \in Req :
    /\ AsksMemory(r1, UPSTAGE) /\ pc[r1] = "embed"
    /\ Len(embeddings[r1]) = 2 /\ Count(calls[r1], "embed") = 3
    /\ AsksMemory(r2, UPSTAGE) /\ vectorStore[r2].by = r2

\* ------------------------------------------------------------------ C15
\* C15: when the Upstage embedding endpoint answers with a failure status,
\* embedQuery throws an Error whose message carries the status and the
\* body of the response, and the request is not sent again; inside the
\* embedDocuments of a build the failed request is the last one sent, the
\* vectors received before it are dropped, and no store is made of them.
C15_UpstageFailureAborts ==
  \A r \in Req :
    (/\ err[r].step \in {"embed", "search"}
     /\ err[r].status # ""
     /\ ProviderOf(r) = UPSTAGE)
      => /\ err[r].isError
         /\ err[r].status \in FailStatus
         /\ \E t \in Texts :
              err[r].message = <<"Upstage", " API error: ", err[r].status, " - ">> \o t
         /\ pc[r] = "done"
         /\ calls[r][Len(calls[r])] = err[r].step
         /\ Count(calls[r], "search") <= 1
         /\ Count(calls[r], "embed") <= NumChunks
         /\ Count(calls[r], "generate") = 0
         /\ err[r].step = "embed" =>
              /\ embeddings[r] = <<>>
              /\ vectorStore[r] = NoStore
              /\ memoryStores[UPSTAGE] = NoStore
              /\ ~isMemoryInitialized[UPSTAGE]

\* The third embedding request of an Upstage build was answered 500.
C15_Witness ==
  \E r \in Req :
    /\ AsksMemory(r, UPSTAGE)
    /\ err[r].step = "embed" /\ err[r].status = "500"
    /\ Count(calls[r], "embed") = 3
    /\ resp[r].status = 500

\* ------------------------------------------------------------------ C16
\* Request r has passed validation and asks for a Pinecone key.
AsksPinecone(r) ==
  /\ pc[r] # "idle"
  /\ body[r].shape \in {"primitive", "object"}
  /\ resp[r].status # 400
  /\ ModelTypeOf(r) \in {OPENAI_PINECONE, UPSTAGE_PINECONE}

\* What belongs to request r alone.
OwnState(r) ==
  <<pc[r], body[r], vectorStore[r], embeddings[r], retrievedDocs[r], prompt[r],
    resp[r], err[r], calls[r]>>

\* C16: an ask for "openai-pinecone" or "upstage-pinecone" connects to the
\* external index and queries it, nothing else: in none of its steps does
\* it read the source file or send an embedding request of a build, the
\* only calls it makes are the connect, the search and the generation, the
\* store it searches is the handle on the external index, and the
\* in-memory indexes and their flags are as they were before the step.
C16_PineconeAskIsReadOnly ==
  [][\A r \in Req :
       (AsksPinecone(r)' /\ OwnState(r)' # OwnState(r))
         => /\ UNCHANGED <<memoryStores, isMemoryInitialized>>
            /\ \A i \in 1..Len(calls'[r]) :
                 calls'[r][i] \in {"connect", "search", "generate"}
            /\ calls'[r][1] = "connect"
            /\ embeddings'[r] = <<>>
            /\ vectorStore'[r] \in {NoStore, PineconeStore(ProviderOf(r)')}]_vars

\* An ask for a Pinecone key was answered while no in-memory index was
\* built and another request was in the middle of a build.
C16_Witness ==
  \E r1, r2 \in Req :
    /\ AsksPinecone(r1)
    /\ resp[r1].status = 200
    /\ calls[r1] = <<"connect", "search", "generate">>
    /\ pc[r2] = "embed"
    /\ \A p \in EmbeddingProvider : memoryStores[p] = NoStore /\ ~isMemoryInitialized[p]

\* ------------------------------------------------------------------ C17
\* The store holds vectors of the embedder of p only and is searched with it.
BuiltWith(store, p) ==
  /\ store.kind = "memory"
  /\ store.embedder = p
  /\ \A i \in 1..Len(store.memoryVectors) :
       store.memoryVectors[i].embedding = embedQuery(p, store.memoryVectors[i].content)

\* C17: the in-memory index cached under key p was built with the embedder
\* of p throughout and is queried with that embedder: the store an ask for
\* p searches is such a store and what it retrieves is ranked by the
\* query's vector of p's embedder; and no step of an ask for p changes the
\* index or the flag of another key.
C17_KeysAreIsolated ==
  /\ [](\A p \in EmbeddingProvider :
          /\ memoryStores[p] # NoStore => BuiltWith(memoryStores[p], p)
          /\ \A r \in Req :
               (AsksMemory(r, p) /\ vectorStore[r] # NoStore) =>
                 /\ BuiltWith(vectorStore[r], p)
                 /\ Count(calls[r], "generate") > 0 =>
                      retrievedDocs[r] =
                        TopKOf(vectorStore[r].memoryVectors,
                               embedQuery(p, body[r].query.v), TopK))
  /\ [][\A p, q \in EmbeddingProvider : \A r \in Req :
          (p # q /\ AsksMemory(r, p)' /\ OwnState(r)' # OwnState(r))
            => /\ memoryStores'[q] = memoryStores[q]
               /\ isMemoryInitialized'[q] = isMemoryInitialized[q]]_vars

\* Both keys are cached, built by different requests, both answered.
C17_Witness ==
  \E r1, r2 \in Req :
    /\ AsksMemory(r1, OPENAI) /\ AsksMemory(r2, UPSTAGE)
    /\ memoryStores[OPENAI].by = r1 /\ memoryStores[UPSTAGE].by = r2
    /\ resp[r1].status = 200 /\ resp[r2].status = 200

\* ------------------------------------------------------------------ C18
\* The in-memory stores of key p there are: the cached one and those the
\* asks for p hold.
StoresOf(p) ==
  ({memoryStores[p]} \cup {vectorStore[r] : r \in {x \in Req : AsksMemory(x, p)}})
  \ {NoStore}

\* C18: two builds of the index of a key from the same chunks with the
\* same embedder rank alike, so after a redundant concurrent build the
\* answers do not depend on which build is cached: all stores of a key hold
\* the same entries in the same order under the same embedder, the searches
\* of two asks of a key with the same question returned the same ranking
\* whichever build each searched, and their answers and sources are the
\* same.
C18_RebuildIsIdempotent ==
  \A p \in EmbeddingProvider :
    /\ \A s1, s2 \in StoresOf(p) :
         s1.embedder = s2.embedder /\ s1.memoryVectors = s2.memoryVectors
    /\ \A r1, r2 \in Req :
         (AsksMemory(r1, p) /\ AsksMemory(r2, p) /\ body[r1].query = body[r2].query)
           => /\ (Count(calls[r1], "generate") > 0 /\ Count(calls[r2], "generate") > 0)
                   => retrievedDocs[r1] = retrievedDocs[r2]
              /\ (resp[r1].status = 200 /\ resp[r2].status = 200)
                   => resp[r1] = resp[r2]

\* Two asks of one key each built the index; the second build replaced the
\* first in the cache; the first ask answered from its own build, and the
\* answers are the same.
C18_Witness ==
  \E r1, r2 \in Req : \E p \in EmbeddingProvider :
    /\ r1 # r2
    /\ AsksMemory(r1, p) /\ AsksMemory(r2, p)
    /\ vectorStore[r1].by = r1 /\ memoryStores[p].by = r2
    /\ vectorStore[r1] # memoryStores[p]
    /\ resp[r1].status = 200 /\ resp[r1] = resp[r2]

\* ------------------------------------------------------------------ C19
\* The chunks from the i-th on can be laid on the text in reading order,
\* none beginning before minStart, each on an occurrence of itself, so that
\* no character after coveredTo is left out except characters that may be
\* skipped.
RECURSIVE CoversFrom(_, _, _, _, _, _)
CoversFrom(chunks, i, minStart, coveredTo, text, skippable) ==
  IF i > Len(chunks)
  THEN \A p \in (coveredTo + 1)..Len(text) : text[p] \in skippable
  ELSE \E a \in minStart..(Len(text) - Len(chunks[i]) + 1) :
         LET b == a + Len(chunks[i]) - 1
         IN  /\ SubSeq(text, a, b) = chunks[i]
             /\ \A p \in (coveredTo + 1)..(a - 1) : text[p] \in skippable
             /\ CoversFrom(chunks, i + 1, a, IF b > coveredTo THEN b ELSE coveredTo,
                           text, skippable)

\* C19 as stated: the chunks of a text come in reading order, each has at
\* most chunkSize characters, and with the overlaps removed they make up
\* the text exactly, no character dropped; an empty text has no chunks.
C19_ChunksReconstructSource ==
  fn = "split" =>
    /\ \A i \in 1..Len(out) : Len(out[i]) <= arg.size
    /\ CoversFrom(out, 1, 1, 0, arg.text, {})
    /\ arg.text = <<>> => out = <<>>

\* ------------------------------------------------------------------ C20
\* At every boundary the last 200 characters of a chunk are the first 200
\* characters of the next.
OverlapsAtEveryBoundary(chunks) ==
  \A i \in 1..(Len(chunks) - 1) :
    /\ Len(chunks[i]) >= 200 /\ Len(chunks[i + 1]) >= 200
    /\ SubSeq(chunks[i], Len(chunks[i]) - 199, Len(chunks[i])) = SubSeq(chunks[i + 1], 1, 200)

\* C20 as stated: a document of 10,000 characters, chunked with chunkSize
\* 1500 and chunkOverlap 200, gives exactly 8 chunks, and at every boundary
\* the last 200 characters of a chunk equal the first 200 of the next.
C20_EightChunksWithOverlap ==
  (fn = "chunks" /\ Len(arg.text) = 10000) =>
    /\ Len(out) = 8
    /\ OverlapsAtEveryBoundary(out)

\* ------------------------------------------------------------------ C21
\* The run has touched no index: nothing deleted, nothing written, no call
\* of the external index under way.
IndexesUntouched ==
  /\ out.deleteAll = <<>> /\ out.upsert = <<>>
  /\ out.index = ScriptStart.index
  /\ fn \in {"", "main", "exit"}

\* C21 as stated: when data/tax.txt is missing, the run of the indexing
\* script ends with a non-zero exit code, and deletes nothing from and
\* writes nothing to the external index.
C21_MissingFileIsFatal ==
  ~arg.fileExists =>
    /\ IndexesUntouched
    /\ fn = "exit" => out.exitCode # 0

\* C21, amended: when data/tax.txt is missing, the run deletes nothing from
\* and writes nothing to the external index, and it ends with exit code 1,
\* except the run that has PINECONE_API_KEY set, is to index all providers
\* and finds none of them configured: that run, and no other, begins no
\* indexing and ends with exit code 0.
C21_MissingFileFailsIndexing ==
  ~arg.fileExists =>
    /\ IndexesUntouched
    /\ fn = "exit" =>
         IF /\ "PINECONE_API_KEY" \in arg.env
            /\ ProviderArg(arg.args) = "all"
            /\ \A i \in 1..Len(Providers) :
                 ApiKeyName(Providers[i]) \notin arg.env
                   \/ IndexName(Providers[i]) \notin arg.env
         THEN out.exitCode = 0 /\ out.started = <<>>
         ELSE out.exitCode = 1

\* A run for openai with its configuration complete has ended with exit
\* code 1 at the missing file.
C21_Witness ==
  /\ fn = "exit"
  /\ ~arg.fileExists
  /\ arg.env = EnvNames
  /\ out.started = <<"openai">>
  /\ out.exitCode = 1

\* ------------------------------------------------------------------ C22
\* The environment variables a run for one provider needs.
RequiredFor(p) == {"PINECONE_API_KEY", ApiKeyName(p), IndexName(p)}

\* C22: a run for one provider in whose environment a variable the provider
\* needs is missing deletes no data of an index (the least the claim asks
\* of a configuration checked before any indexing step), and ends with exit
\* code 1.
C22_ConfigCheckedBeforeDelete ==
  \A p \in {"openai", "upstage"} :
    (ProviderArg(arg.args) = p /\ ~(RequiredFor(p) \subseteq arg.env)) =>
      /\ out.deleteAll = <<>>
      /\ out.index = ScriptStart.index
      /\ fn = "exit" => out.exitCode = 1

\* ------------------------------------------------------------------ C23
\* The in-memory index of the provider has been built: a store with every
\* chunk of the corpus is cached.
IndexBuilt(p) ==
  /\ memoryStores[p].kind = "memory"
  /\ Len(memoryStores[p].memoryVectors) = NumChunks

\* C23: a GET answers with status "ok" and changes nothing of the pipeline
\* (no store, no flag, no request, no outbound call); the flag it reports
\* for a provider is true exactly when the in-memory index of the provider
\* has been built.
C23_GetReportsAndKeepsState ==
  [][/\ (fn' # fn \/ out' # out) =>
          /\ out'.status = "ok"
          /\ UNCHANGED server
     /\ (out' # out /\ fn' = "GET initialized") =>
          \A p \in EmbeddingProvider : out'.initialized[p] <=> IndexBuilt(p)]_vars

\* A GET has reported the index of openai built and that of upstage not,
\* while a build of upstage is under way.
C23_Witness ==
  /\ fn = "GET initialized"
  /\ out.initialized[OPENAI] /\ ~out.initialized[UPSTAGE]
  /\ IndexBuilt(OPENAI) /\ ~IndexBuilt(UPSTAGE)
  /\ \E r \in Req : pc[r] = "embed" /\ ProviderOf(r) = UPSTAGE /\ embeddings[r] # <<>>

\* ------------------------------------------------------------------ C24
\* C24: once a store is cached for a provider, the cached store is never
\* replaced by another store object (a store is told from another by the
\* build that made it) and never reset.
C24_CachedIndexNeverReplaced ==
  [][\A p \in EmbeddingProvider :
       memoryStores[p] # NoStore => memoryStores'[p] = memoryStores[p]]_vars

\* ------------------------------------------------------------------ C25
\* The four combinations: model type, embedding provider, vector store,
\* chat model.
Combinations ==
  {[modelType |-> OPENAI, embedding |-> OPENAI, vectorStore |-> "memory",
    llm |-> "gpt-4o-mini"],
   [modelType |-> UPSTAGE, embedding |-> UPSTAGE, vectorStore |-> "memory",
    llm |-> "solar-pro2"],
   [modelType |-> OPENAI_PINECONE, embedding |-> OPENAI, vectorStore |-> "pinecone",
    llm |-> "gpt-4o-mini"],
   [modelType |-> UPSTAGE_PINECONE, embedding |-> UPSTAGE, vectorStore |-> "pinecone",
    llm |-> "solar-pro2"]}

\* Request r has passed the validation of POST.
Validated(r) ==
  /\ pc[r] # "idle"
  /\ handler[r] = "modelType"
  /\ body[r].shape \in {"primitive", "object"}
  /\ ~QueryRejected(body[r].query)
  /\ IsValidModelType(DefaultModelType(body[r].modelType))

\* C25: a request of a model type runs with the embedding provider and the
\* vector store of its combination: the embedder of its store and of its
\* build, the kind of its store, the outbound steps it takes; and its answer
\* comes from the chat model of the same provider, asked with temperature 0.
C25_ModelTypeSelectsCombination ==
  \A r \in Req : \A c \in Combinations :
    (Validated(r) /\ ModelTypeOf(r) = c.modelType) =>
      /\ vectorStore[r] # NoStore =>
           vectorStore[r].embedder = c.embedding /\ vectorStore[r].kind = c.vectorStore
      /\ \A i \in 1..Len(embeddings[r]) :
           embeddings[r][i] = embedQuery(c.embedding, createDocuments[i])
      /\ Count(calls[r], "build") = (IF c.vectorStore = "memory" THEN 1 ELSE 0)
      /\ Count(calls[r], "connect") = (IF c.vectorStore = "pinecone" THEN 1 ELSE 0)
      /\ resp[r].status = 200 => resp[r].answer = <<"answer of ", c.llm>>
      /\ getLLM(c.embedding).model = c.llm
      /\ getLLM(c.embedding).temperature = 0

\* A request of upstage-pinecone has been answered by solar-pro2 from the
\* Pinecone store of the Upstage embedder.
C25_Witness ==
  /\ Validated(1) /\ ModelTypeOf(1) = UPSTAGE_PINECONE
  /\ pc[1] = "done" /\ resp[1].status = 200
  /\ resp[1].answer = <<"answer of ", "solar-pro2">>
  /\ vectorStore[1] = PineconeStore(UPSTAGE)

\* ------------------------------------------------------------------ C26
\* The build of request r fails in this step: the file cannot be read, or
\* an embedding request of the build fails.
BuildFails(r) ==
  /\ pc[r] \in {"idle", "split", "embed"}
  /\ pc'[r] = "done"
  /\ err'[r].step \in {"build", "embed"}

\* C26: a build that fails caches no store and sets no flag, and its ask
\* is answered with an error without any search; no cached store was made
\* by a build that failed, and no flag is set without a store; and an ask
\* that starts for a key whose flag is not set starts a build of its own
\* and has no store to search before that build ends.
C26_FailedBuildLeavesKeyUnbuilt ==
  /\ [](\A p \in EmbeddingProvider :
          /\ isMemoryInitialized[p] => memoryStores[p] # NoStore
          /\ memoryStores[p] # NoStore =>
               err[memoryStores[p].by].step \notin {"build", "embed"})
  /\ [][\A r \in Req :
          /\ BuildFails(r) =>
               /\ UNCHANGED <<memoryStores, isMemoryInitialized>>
               /\ resp'[r].status = 500
               /\ vectorStore'[r] = NoStore
               /\ Count(calls'[r], "search") = 0
          /\ \A p \in EmbeddingProvider :
               (pc[r] = "idle" /\ AsksMemory(r, p)' /\ ~isMemoryInitialized[p]) =>
                 /\ calls'[r] = <<"build">>
                 /\ pc'[r] \in {"split", "done"}
                 /\ vectorStore'[r] = NoStore]_vars

\* The build of the first ask failed at an embedding request and left the
\* key unbuilt; the second ask of the same key built the index itself and
\* answered.
C26_Witness ==
  \E p \in EmbeddingProvider :
    /\ AsksMemory(1, p) /\ AsksMemory(2, p)
    /\ err[1].step = "embed" /\ resp[1].status = 500
    /\ calls[1] = <<"build", "embed">>
    /\ memoryStores[p].by = 2 /\ isMemoryInitialized[p]
    /\ resp[2].status = 200

\* ------------------------------------------------------------------ C27
\* C27: in every state, between the steps of concurrent builds as well, a
\* flag that is set means that a completely built store is cached for the
\* provider: one entry for every chunk of the corpus, embedded by the
\* provider's embedder.
C27_FlagImpliesCompleteIndex ==
  \A p \in EmbeddingProvider :
    isMemoryInitialized[p] =>
      /\ memoryStores[p] # NoStore
      /\ memoryStores[p].kind = "memory"
      /\ memoryStores[p].embedder = p
      /\ Len(memoryStores[p].memoryVectors) = Len(createDocuments)
      /\ \A i \in 1..Len(createDocuments) :
           memoryStores[p].memoryVectors[i] =
             [content |-> createDocuments[i],
              embedding |-> embedQuery(p, createDocuments[i])]

\* The flag of a key is set while another build of the same key has
\* received a part of its vectors.
C27_Witness ==
  \E p \in EmbeddingProvider : \E r \in Req :
    /\ isMemoryInitialized[p]
    /\ Building(r, p) /\ pc[r] = "embed"
    /\ embeddings[r] # <<>> /\ Len(embeddings[r]) < Len(createDocuments)

\* ------------------------------------------------------------------ C28
\* C28: addMessage puts the message at the end of the list of the model
\* type selected when it is called and leaves every other list and the
\* selection as they are; setModelType sets the selection and leaves every
\* list as it is.
C28_StoreKeepsConversationsApart ==
  [][/\ fn' = "addMessage" =>
          /\ out'.messagesByType[out.modelType]
               = out.messagesByType[out.modelType] \o <<arg'>>
          /\ \A t \in ModelTypes \ {out.modelType} :
               out'.messagesByType[t] = out.messagesByType[t]
          /\ out'.modelType = out.modelType
     /\ fn' = "setModelType" =>
          /\ out'.modelType = arg'
          /\ out'.messagesByType = out.messagesByType]_vars

\* After switches of the model type the lists of openai and of
\* upstage-pinecone hold a conversation each, and upstage is selected.
C28_Witness ==
  /\ fn = "setModelType"
  /\ out.modelType = UPSTAGE
  /\ Len(out.messagesByType[OPENAI]) = 2
  /\ Len(out.messagesByType[UPSTAGE_PINECONE]) = 1
  /\ out.messagesByType[UPSTAGE] = <<>>

\* ------------------------------------------------------------------ C29
\* C29: at most one request is under way at any time, and the messages
\* alternate, a user message first: each question is followed by exactly
\* one assistant message before the next question is added; while a
\* request is under way the form takes no input, and with a blank input the
\* form cannot be submitted and handleSubmit changes nothing.
C29_OneRequestAndAlternation ==
  /\ Len(out.requests) <= 1
  /\ \A i \in 1..Len(out.messages) :
       out.messages[i].role = (IF i % 2 = 1 THEN "user" ELSE "assistant")
  /\ Len(out.requests) = Len(out.messages) % 2
  /\ out.requests # <<>> => InputDisabled(out) /\ SubmitDisabled(out)
  /\ Trim(out.input) = <<>> => SubmitDisabled(out) /\ handleSubmit(out) = out

\* A second question is under way after the first was answered with the
\* fixed error text, and a blank text typed before it added nothing.
C29_Witness ==
  /\ Len(out.messages) = 3
  /\ out.messages[2] = [role |-> "assistant", content |-> MSG_SORRY]
  /\ out.messages[3].role = "user"
  /\ out.requests = <<2>>
  /\ out.input = <<>>

====
